---------------------------- MODULE Spec2Model ----------------------------
(***************************************************************************)
(* A model of the byte-level BPE tokenizer of LLM-Tokenizer-Rust.          *)
(*                                                                         *)
(* Bytes are the integers 0..255, byte strings and Rust `String`s (always  *)
(* valid UTF-8) are sequences of bytes, a rank is a natural number.  Rust  *)
(* slices are 0-based and half open; piece[a..b] is SubSeq(piece,a+1,b).   *)
(* A panic (failed assert, HashMap index on a missing key) is an outcome   *)
(* of its own: a rank sequence that contains PANIC, a result of kind       *)
(* "panic".                                                                *)
(***************************************************************************)
EXTENDS Integers, Sequences, FiniteSets, TLC

(***************************************************************************)
(* Bounds of the model.                                                    *)
(***************************************************************************)
MaxAtoms == 4       \* a text is the concatenation of at most MaxAtoms atoms
MaxSpecAtoms == 3   \* the same, for the calls that take special sets
MaxTokens == 3      \* a token sequence handed to a decode operation
MaxBatch == 2       \* the number of elements of a batch
MaxStack == 3       \* call frames the stack holds before it overflows

(***************************************************************************)
(* The bytes of the model alphabet.                                        *)
(***************************************************************************)
BA == 97            \* 'a'
BB == 98            \* 'b'
BSP == 32           \* ' '
BLT == 60           \* '<'
BBAR == 124         \* '|'
BGT == 62           \* '>'
BC3 == 195          \* lead byte of a two-byte character
BA9 == 169          \* continuation byte: C3 A9 is U+00E9
BNL == 10           \* '\n'
BTAB == 9           \* '\t'
BBSL == 92          \* '\'
BX == 120           \* 'x'
BE2 == 226  \* 0xE2, the lead byte of a three-byte character

RankMAX == 2147483647  \* Rank::MAX; only "above every rank of a table" is used
PANIC == -1            \* the place of a rank whose computation panicked

Min(S) == CHOOSE x \in S : \A y \in S : x <= y
Max(S) == CHOOSE x \in S : \A y \in S : x >= y

RECURSIVE Concat(_)
Concat(ss) == IF ss = <<>> THEN <<>> ELSE Head(ss) \o Concat(Tail(ss))

StartsWith(s, p) == Len(p) <= Len(s) /\ SubSeq(s, 1, Len(p)) = p

\* derived Ord of Vec<u8> / [u8]: lexicographic, a proper prefix is smaller
RECURSIVE LexLess(_, _)
LexLess(x, y) ==
    IF y = <<>> THEN FALSE
    ELSE IF x = <<>> THEN TRUE
    ELSE IF Head(x) # Head(y) THEN Head(x) < Head(y)
    ELSE LexLess(Tail(x), Tail(y))

\* Vec::sort of a set of distinct byte strings
RECURSIVE SortedSeq(_)
SortedSeq(S) ==
    IF S = {} THEN <<>>
    ELSE LET m == CHOOSE x \in S : \A y \in S \ {x} : LexLess(x, y)
         IN <<m>> \o SortedSeq(S \ {m})


(***************************************************************************)
(* UTF-8 chunking (counter/utils.rs).                                      *)
(***************************************************************************)
utf8_char_width(b) ==
    IF b < 128 THEN 1
    ELSE IF b < 194 THEN 0
    ELSE IF b < 224 THEN 2
    ELSE IF b < 240 THEN 3
    ELSE IF b < 245 THEN 4
    ELSE 0

\* xs.get(i).unwrap_or(&0), i a 0-based index
safe_get(xs, i) == IF i < Len(xs) THEN xs[i + 1] ELSE 0

\* b & 192 == TAG_CONT_U8; also the test 0x80 <= b && b < 0xC0
IsContinuation(b) == 128 <= b /\ b < 192

SecondOf3(byte, nxt) ==
    \/ byte = 224 /\ 160 <= nxt /\ nxt <= 191
    \/ 225 <= byte /\ byte <= 236 /\ 128 <= nxt /\ nxt <= 191
    \/ byte = 237 /\ 128 <= nxt /\ nxt <= 159
    \/ 238 <= byte /\ byte <= 239 /\ 128 <= nxt /\ nxt <= 191

SecondOf4(byte, nxt) ==
    \/ byte = 240 /\ 144 <= nxt /\ nxt <= 191
    \/ 241 <= byte /\ byte <= 243 /\ 128 <= nxt /\ nxt <= 191
    \/ byte = 244 /\ 128 <= nxt /\ nxt <= 143

\* the while loop of BytesChunks::next: the pair <<i, valid_up_to>> it ends with
RECURSIVE ChunkScan(_, _, _)
ChunkScan(source, i, valid_up_to) ==
    IF i >= Len(source) THEN <<i, valid_up_to>>
    ELSE LET byte == source[i + 1]
             j == i + 1
             w == utf8_char_width(byte)
         IN IF byte < 128 THEN ChunkScan(source, j, j)
            ELSE IF w = 2 THEN
                IF ~IsContinuation(safe_get(source, j)) THEN <<j, valid_up_to>>
                ELSE ChunkScan(source, j + 1, j + 1)
            ELSE IF w = 3 THEN
                IF ~SecondOf3(byte, safe_get(source, j)) THEN <<j, valid_up_to>>
                ELSE IF ~IsContinuation(safe_get(source, j + 1))
                     THEN <<j + 1, valid_up_to>>
                ELSE ChunkScan(source, j + 2, j + 2)
            ELSE IF w = 4 THEN
                IF ~SecondOf4(byte, safe_get(source, j)) THEN <<j, valid_up_to>>
                ELSE IF ~IsContinuation(safe_get(source, j + 1))
                     THEN <<j + 1, valid_up_to>>
                ELSE IF ~IsContinuation(safe_get(source, j + 2))
                     THEN <<j + 2, valid_up_to>>
                ELSE ChunkScan(source, j + 3, j + 3)
            ELSE <<j, valid_up_to>>

\* the chunks BytesChunks yields for v, in order
RECURSIVE BytesChunks(_)
BytesChunks(source) ==
    IF source = <<>> THEN <<>>
    ELSE LET r == ChunkScan(source, 0, 0)
             chunk == [valid |-> SubSeq(source, 1, r[2]),
                       invalid |-> SubSeq(source, r[2] + 1, r[1])]
         IN <<chunk>> \o BytesChunks(SubSeq(source, r[1] + 1, Len(source)))

\* std::str::from_utf8: Utf8Error::valid_up_to, and success when all is valid
valid_up_to(bytes) == ChunkScan(bytes, 0, 0)[2]
from_utf8_ok(bytes) == valid_up_to(bytes) = Len(bytes)

RECURSIVE PushChunks(_, _)
PushChunks(chunks, replace_bytes) ==
    IF chunks = <<>> THEN <<>>
    ELSE Head(chunks).valid
         \o (IF Head(chunks).invalid # <<>> THEN replace_bytes ELSE <<>>)
         \o PushChunks(Tail(chunks), replace_bytes)

from_utf8_or(v, replace_bytes) ==
    LET chunks == BytesChunks(v)
    IN IF chunks = <<>> THEN <<>>
       ELSE IF Head(chunks).invalid = <<>> THEN Head(chunks).valid
       ELSE Head(chunks).valid \o replace_bytes
            \o PushChunks(Tail(chunks), replace_bytes)

from_utf8_ignore(v) == from_utf8_or(v, <<>>)

\* a faulty variant: the invalid bytes are dropped, not escaped
from_utf8_backslash_dropped(v) == from_utf8_or(v, <<>>)

\* one digit of format!("{:02X}")
HexDigit(n) == IF n < 10 THEN 48 + n ELSE 55 + n

RECURSIVE push_str_to_string(_)
push_str_to_string(bytes) ==
    IF bytes = <<>> THEN <<>>
    ELSE <<BBSL, BX, HexDigit(Head(bytes) \div 16), HexDigit(Head(bytes) % 16)>>
         \o push_str_to_string(Tail(bytes))

RECURSIVE PushChunksBackslash(_)
PushChunksBackslash(chunks) ==
    IF chunks = <<>> THEN <<>>
    ELSE Head(chunks).valid
         \o (IF Head(chunks).invalid # <<>>
             THEN push_str_to_string(Head(chunks).invalid) ELSE <<>>)
         \o PushChunksBackslash(Tail(chunks))

from_utf8_backslash(v) ==
    LET chunks == BytesChunks(v)
    IN IF chunks = <<>> THEN <<>>
       ELSE IF Head(chunks).invalid = <<>> THEN Head(chunks).valid
       ELSE Head(chunks).valid \o push_str_to_string(Head(chunks).invalid)
            \o PushChunksBackslash(Tail(chunks))

\* String::from_utf8_lossy: U+FFFD (EF BF BD) for each invalid chunk
from_utf8_lossy(v) == from_utf8_or(v, <<239, 191, 189>>)

(***************************************************************************)
(* The pair-merge kernel.  parts is the vector of (start, rank); Part(k)   *)
(* is parts[k] of the code (0-based), start is a 0-based byte offset.      *)
(***************************************************************************)
RankOf(ranks, key) == IF key \in DOMAIN ranks THEN ranks[key] ELSE RankMAX

\* the first loop: (i, rank of piece[i..=i+1]) for i in 0..len-1
RECURSIVE PairParts(_, _, _)
PairParts(ranks, piece, i) ==
    IF i >= Len(piece) - 1 THEN <<>>
    ELSE << <<i, RankOf(ranks, SubSeq(piece, i + 1, i + 2))>> >>
         \o PairParts(ranks, piece, i + 1)

\* parts before the merge loop: the pairs, then (len-1, MAX) and (len, MAX)
InitialParts(ranks, piece) ==
    PairParts(ranks, piece, 0)
    \o << <<Len(piece) - 1, RankMAX>>, <<Len(piece), RankMAX>> >>

\* counter/openai/bpe.rs: piece[parts[i].0 ..= parts[i + 2].0]
get_rank(ranks, piece, parts, i) ==
    IF i + 3 < Len(parts)
    THEN RankOf(ranks, SubSeq(piece, parts[i + 1][1] + 1, parts[i + 3][1] + 1))
    ELSE RankMAX

\* counter/token.rs: piece[parts[i].0 .. parts[i + 3].0]
tk_get_rank(ranks, piece, parts, i) ==
    IF i + 3 < Len(parts)
    THEN RankOf(ranks, SubSeq(piece, parts[i + 1][1] + 1, parts[i + 4][1]))
    ELSE RankMAX

\* the scan over parts[..parts.len() - 1]: (rank, index) of the first minimum,
\* (MAX, -1) when every rank is MAX
min_rank(parts) ==
    LET idx == {k \in 0..(Len(parts) - 2) : parts[k + 1][2] < RankMAX}
    IN IF idx = {} THEN <<RankMAX, -1>>
       ELSE LET r == Min({parts[k + 1][2] : k \in idx})
            IN <<r, Min({k \in idx : parts[k + 1][2] = r})>>

RemoveAt(s, k) == SubSeq(s, 1, k) \o SubSeq(s, k + 2, Len(s))

\* the iteration without parts.remove(i + 1)
MergeStep_noRemove(ranks, piece, parts, i, tk) ==
    [parts EXCEPT ![i + 1] =
        <<@[1], IF tk THEN tk_get_rank(ranks, piece, parts, i)
                      ELSE get_rank(ranks, piece, parts, i)>>]

\* one iteration of the while loop, merging at i = min_rank.1
MergeStep(ranks, piece, parts, i, tk) ==
    LET p1 == IF i > 0
              THEN [parts EXCEPT ![i] =
                      <<@[1], IF tk THEN tk_get_rank(ranks, piece, parts, i - 1)
                                    ELSE get_rank(ranks, piece, parts, i - 1)>>]
              ELSE parts
        p2 == [p1 EXCEPT ![i + 1] =
                      <<@[1], IF tk THEN tk_get_rank(ranks, piece, p1, i)
                                    ELSE get_rank(ranks, piece, p1, i)>>]
    IN RemoveAt(p2, i + 1)

RECURSIVE MergeLoop(_, _, _, _)
MergeLoop(ranks, piece, parts, tk) ==
    LET m == min_rank(parts)
    IN IF m[1] = RankMAX THEN parts
       ELSE MergeLoop(ranks, piece, MergeStep(ranks, piece, parts, m[2], tk), tk)

byte_pair_merge(ranks, piece) ==
    MergeLoop(ranks, piece, InitialParts(ranks, piece), FALSE)

\* counter/token.rs
tk_byte_pair_merge(ranks, piece) ==
    MergeLoop(ranks, piece, InitialParts(ranks, piece), TRUE)

\* the spans parts.windows(2) cuts the piece into
RECURSIVE Windows(_, _, _)
Windows(piece, parts, k) ==
    IF k >= Len(parts) THEN <<>>
    ELSE <<SubSeq(piece, parts[k][1] + 1, parts[k + 1][1])>>
         \o Windows(piece, parts, k + 1)

\* ranks[&span]: indexing a HashMap panics on a missing key
IndexRank(ranks, key) == IF key \in DOMAIN ranks THEN ranks[key] ELSE PANIC

RECURSIVE IndexRanks(_, _)
IndexRanks(ranks, spans) ==
    IF spans = <<>> THEN <<>>
    ELSE <<IndexRank(ranks, Head(spans))>> \o IndexRanks(ranks, Tail(spans))

byte_pair_encode(piece, ranks) ==
    IF ~(Len(piece) > 1) THEN <<PANIC>>
    ELSE IndexRanks(ranks, Windows(piece, byte_pair_merge(ranks, piece), 1))

byte_pair_split(piece, ranks) ==
    IF ~(Len(piece) > 1) THEN <<<<PANIC>>>>
    ELSE Windows(piece, byte_pair_merge(ranks, piece), 1)

\* counter/token.rs
tk_bytes_pair_encode(piece, ranks) ==
    IF ~(Len(piece) > 1) THEN <<PANIC>>
    ELSE IndexRanks(ranks, Windows(piece, tk_byte_pair_merge(ranks, piece), 1))

tk_bytes_pair_split(piece, ranks) ==
    IF ~(Len(piece) > 1) THEN <<<<PANIC>>>>
    ELSE Windows(piece, tk_byte_pair_merge(ranks, piece), 1)

Panicked(tokens) == \E k \in DOMAIN tokens : tokens[k] = PANIC

(***************************************************************************)
(* Regular expressions.  A pattern is named by its text.  The patterns of  *)
(* the model are ".+" (one piece per line) and " ?[^ ]+| +" (a word with   *)
(* its leading space, or a run of spaces); a pattern with a look-ahead is  *)
(* one the regex crate refuses to compile.                                 *)
(***************************************************************************)
PatDotPlus == ".+"
PatWords == " ?[^ ]+| +"
PatGpt2 == "'(?:[sdmt]|ll|ve|re)| ?\\p{L}+| ?\\p{N}+| ?[^\\s\\p{L}\\p{N}]+|\\s+(?!\\S)|\\s+"

\* Regex::new(pattern) of the regex crate succeeds
RegexCompiles(pattern) == pattern \in {PatDotPlus, PatWords}

\* length of the longest prefix of s, from 0-based offset i, whose bytes are in/out of cls
RECURSIVE RunLen(_, _, _, _)
RunLen(s, i, cls, inside) ==
    IF i < Len(s) /\ ((s[i + 1] \in cls) = inside)
    THEN 1 + RunLen(s, i + 1, cls, inside) ELSE 0

\* the end of the leftmost-first match of the pattern that starts at offset i,
\* or i when the pattern does not match there
MatchEnd(pattern, s, i) ==
    IF pattern = PatDotPlus THEN i + RunLen(s, i, {BNL}, FALSE)
    ELSE \* " ?[^ ]+" first, then " +"
         LET j == IF s[i + 1] = BSP THEN i + 1 ELSE i
             w == RunLen(s, j, {BSP}, FALSE)
         IN IF w > 0 THEN j + w ELSE i + RunLen(s, i, {BSP}, TRUE)

\* Regex::find_iter(s): the non-overlapping matches, left to right
RECURSIVE find_iter(_, _, _)
find_iter(pattern, s, i) ==
    IF i >= Len(s) THEN <<>>
    ELSE LET e == MatchEnd(pattern, s, i)
         IN IF e = i THEN find_iter(pattern, s, i + 1)
            ELSE <<SubSeq(s, i + 1, e)>> \o find_iter(pattern, s, e)

\* s has the literal lit at 0-based offset i
LitAt(s, lit, i) == i + Len(lit) <= Len(s) /\ SubSeq(s, i + 1, i + Len(lit)) = lit

\* find / find_at of an alternation of literals (order alts matters only when
\* two alternatives match at the same offset): <<start, end>>, <<-1, -1>> for None
FindLiteralAt(alts, s, start) ==
    LET hits == {i \in start..Len(s) : \E lit \in alts : LitAt(s, lit, i)}
    IN IF hits = {} THEN <<-1, -1>>
       ELSE LET i == Min(hits)
                lit == CHOOSE l \in alts : LitAt(s, l, i)
            IN <<i, i + Len(lit)>>

\* the alternatives of a token compiled without regex::escape: '|' separates
\* alternatives, every other byte of the model alphabet is a literal
RECURSIVE SplitOnBar(_, _)
SplitOnBar(token, cur) ==
    IF token = <<>> THEN {cur}
    ELSE IF Head(token) = BBAR THEN {cur} \cup SplitOnBar(Tail(token), <<>>)
    ELSE SplitOnBar(Tail(token), Append(cur, Head(token)))

(***************************************************************************)
(* CoreBytePairEncoding (counter/openai/bpe.rs).  encoder maps byte        *)
(* strings to ranks, special_tokens_encoder maps special strings to ranks. *)
(***************************************************************************)
Ranks(map) == {map[k] : k \in DOMAIN map}

\* the map (value, key) pairs collect to: a later pair replaces an earlier one
\* of the same rank, so one key per rank survives
Inverse(map) == [r \in Ranks(map) |-> CHOOSE k \in DOMAIN map : map[k] = r]

\* Regex::new(&escaped_specials.join("|")): the alternatives as literals; the
\* join of no key is the empty pattern, which matches the empty string at
\* every offset
EscapedAlternation(keys) == IF keys = {} THEN {<<>>} ELSE keys

CoreBytePairEncoding_new(encoder, special_tokens_encoder, pattern) ==
    IF ~RegexCompiles(pattern)
    THEN [kind |-> "err", err |-> "RegexError"]
    ELSE IF Cardinality(DOMAIN encoder) # Cardinality(Ranks(encoder))
    THEN [kind |-> "panic", err |-> "assert_eq"]
    ELSE [kind |-> "ok", err |-> "",
          bpe |-> [encoder |-> encoder,
                   special_tokens_encoder |-> special_tokens_encoder,
                   decoder |-> Inverse(encoder),
                   special_tokens_decoder |-> Inverse(special_tokens_encoder),
                   regex_tls |-> pattern,
                   special_regex_tls |-> EscapedAlternation(DOMAIN special_tokens_encoder),
                   sorted_token_bytes |-> SortedSeq(DOMAIN encoder)]]

\* the body of the find_iter loops: one piece to its tokens
PieceTokens(bpe, piece) ==
    IF piece \in DOMAIN bpe.encoder THEN <<bpe.encoder[piece]>>
    ELSE byte_pair_encode(piece, bpe.encoder)

RECURSIVE EncodePieces(_, _)
EncodePieces(bpe, pieces) ==
    IF pieces = <<>> THEN <<>>
    ELSE PieceTokens(bpe, Head(pieces)) \o EncodePieces(bpe, Tail(pieces))

encode_ordinary_native(bpe, text) ==
    EncodePieces(bpe, find_iter(bpe.regex_tls, text, 0))

\* the inner loop of encode_native: the next match of the special regex at or
\* after start_find whose text is in allowed_special, <<-1, -1>> when none
\* find_at(text, start_find) with start_find = text.len() + 1, reached after
\* an empty match at the end of the text
PastEnd == <<-2, -2>>

RECURSIVE NextSpecial(_, _, _, _)
NextSpecial(bpe, text, start_find, allowed_special) ==
    LET m == FindLiteralAt(bpe.special_regex_tls, text, start_find)
    IN IF start_find > Len(text) THEN PastEnd
       ELSE IF m[1] = -1 THEN m
       ELSE IF SubSeq(text, m[1] + 1, m[2]) \in allowed_special THEN m
       ELSE NextSpecial(bpe, text, m[1] + 1, allowed_special)

\* a faulty variant: the tokens of every piece of the slice are counted
LastPieceLen_wholeSlice(bpe, pieces, before) ==
    IF pieces = <<>> THEN before
    ELSE Len(EncodePieces(bpe, pieces))

\* last_piece_token_len after the pieces of one slice
LastPieceLen(bpe, pieces, before) ==
    IF pieces = <<>> THEN before
    ELSE Len(PieceTokens(bpe, pieces[Len(pieces)]))

\* the outer loop of encode_native from `start` on, with the tokens pushed so
\* far.  A search past the end of the text panics or finds nothing, as the
\* build of the regex crate has it (past_end_panics)
RECURSIVE EncodeNativeLoop(_, _, _, _, _, _, _)
EncodeNativeLoop(bpe, text, allowed_special, start, ret, last_piece_token_len, past_end_panics) ==
    LET next_special == NextSpecial(bpe, text, start, allowed_special)
        end == IF next_special[1] < 0 THEN Len(text) ELSE next_special[1]
        pieces == find_iter(bpe.regex_tls, SubSeq(text, start + 1, end), 0)
        ret1 == ret \o EncodePieces(bpe, pieces)
        lpl == LastPieceLen(bpe, pieces, last_piece_token_len)
    IN IF next_special = PastEnd /\ past_end_panics THEN << <<PANIC>>, 0 >>
       ELSE IF next_special[1] < 0 THEN <<ret1, lpl>>
       ELSE LET piece == SubSeq(text, next_special[1] + 1, next_special[2])
                token == bpe.special_tokens_encoder[piece]
            IN EncodeNativeLoop(bpe, text, allowed_special, next_special[2],
                                Append(ret1, token), 0, past_end_panics)

\* (tokens, last_piece_token_len), on a given build of the regex crate
encode_native_built(bpe, text, allowed_special, past_end_panics) ==
    EncodeNativeLoop(bpe, text, allowed_special, 0, <<>>, 0, past_end_panics)

\* (tokens, last_piece_token_len) of an engine with special tokens: its
\* special regex has no empty match, so no search starts past the end
encode_native(bpe, text, allowed_special) ==
    encode_native_built(bpe, text, allowed_special, FALSE)

\* self.decoder.get(token).unwrap_or_else(|| &self.special_tokens_decoder[token])
TokenBytes(bpe, token) ==
    IF token \in DOMAIN bpe.decoder THEN bpe.decoder[token]
    ELSE IF token \in DOMAIN bpe.special_tokens_decoder
         THEN bpe.special_tokens_decoder[token]
    ELSE <<PANIC>>

RECURSIVE decode_native(_, _)
decode_native(bpe, tokens) ==
    IF tokens = <<>> THEN <<>>
    ELSE TokenBytes(bpe, Head(tokens)) \o decode_native(bpe, Tail(tokens))

\* a faulty variant: the special tokens are never looked up
CoreBytePairEncoding_encode_single_token_noSpecial(bpe, piece) ==
    IF piece \in DOMAIN bpe.encoder
    THEN [kind |-> "ok", err |-> "", rank |-> bpe.encoder[piece]]
    ELSE [kind |-> "err", err |-> "KeyError", rank |-> PANIC]

CoreBytePairEncoding_encode_single_token(bpe, piece) ==
    IF piece \in DOMAIN bpe.encoder
    THEN [kind |-> "ok", err |-> "", rank |-> bpe.encoder[piece]]
    ELSE IF from_utf8_ok(piece) /\ piece \in DOMAIN bpe.special_tokens_encoder
    THEN [kind |-> "ok", err |-> "", rank |-> bpe.special_tokens_encoder[piece]]
    ELSE [kind |-> "err", err |-> "KeyError", rank |-> PANIC]

(***************************************************************************)
(* Unstable completions (counter/openai/bpe.rs).                           *)
(***************************************************************************)
token_is_all_space(bpe, token) ==
    /\ token \in DOMAIN bpe.decoder
    /\ \A k \in DOMAIN bpe.decoder[token] : bpe.decoder[token][k] \in {BSP, BNL, BTAB}

RECURSIVE IncreaseLoop(_, _, _)
IncreaseLoop(bpe, tokens, last_piece_token_len) ==
    IF /\ last_piece_token_len < Len(tokens)
       /\ token_is_all_space(bpe, tokens[Len(tokens) - last_piece_token_len])
    THEN IncreaseLoop(bpe, tokens, last_piece_token_len + 1)
    ELSE last_piece_token_len

increase_last_piece_token_len(bpe, tokens, last_piece_token_len) ==
    IF /\ last_piece_token_len > 0
       /\ token_is_all_space(bpe, tokens[Len(tokens) - last_piece_token_len + 1])
    THEN IncreaseLoop(bpe, tokens, last_piece_token_len)
    ELSE last_piece_token_len

\* slice::partition_point(|x| x < target) on the sorted vector (0-based)
partition_point(sorted, target) ==
    Cardinality({k \in DOMAIN sorted : LexLess(sorted[k], target)})

\* the entries the while loop walks over from `point` on
RECURSIVE WalkPrefix(_, _, _)
WalkPrefix(sorted, point, prefix) ==
    IF point < Len(sorted) /\ StartsWith(sorted[point + 1], prefix)
    THEN {sorted[point + 1]} \cup WalkPrefix(sorted, point + 1, prefix)
    ELSE {}

\* the for loop that cuts `encoded` once seq_len reaches the unstable length
RECURSIVE TruncateSeq(_, _, _, _)
TruncateSeq(bpe, encoded, seq_len, unstable_len) ==
    IF encoded = <<>> THEN <<>>
    ELSE LET token == Head(encoded)
             n == IF token \in DOMAIN bpe.decoder
                  THEN seq_len + Len(bpe.decoder[token]) ELSE unstable_len
         IN IF n >= unstable_len THEN <<token>>
            ELSE <<token>> \o TruncateSeq(bpe, Tail(encoded), n, unstable_len)

\* char::is_whitespace
is_whitespace(c) ==
    \/ 9 <= c /\ c <= 13
    \/ c \in {32, 133, 160, 5760, 8232, 8233, 8239, 8287, 12288}
    \/ 8192 <= c /\ c <= 8202

\* bstr::decode_utf8: <<codepoint or -1, bytes consumed>>
decode_utf8(s) ==
    LET w == utf8_char_width(s[1])
    IN IF w = 1 THEN <<s[1], 1>>
       ELSE IF w >= 2 /\ Len(s) >= w /\ from_utf8_ok(SubSeq(s, 1, w))
       THEN <<IF w = 2 THEN (s[1] - 192) * 64 + (s[2] - 128)
              ELSE IF w = 3 THEN (s[1] - 224) * 4096 + (s[2] - 128) * 64 + (s[3] - 128)
              ELSE (s[1] - 240) * 262144 + (s[2] - 128) * 4096
                   + (s[3] - 128) * 64 + (s[4] - 128), w>>
       ELSE <<-1, ChunkScan(s, 0, 0)[1]>>

RECURSIVE LastStart(_, _, _)
LastStart(s, start, limit) ==
    IF start > limit /\ IsContinuation(s[start + 1])
    THEN LastStart(s, start - 1, limit) ELSE start

\* the result of decode_last_utf8 once the start of the last character is found
DecodeLastFrom(s, start, d) == IF start + d[2] # Len(s) THEN <<-1, 1>> ELSE d

DecodeLastAt(s, start) == DecodeLastFrom(s, start, decode_utf8(SubSeq(s, start + 1, Len(s))))

\* bstr::decode_last_utf8 of a non-empty slice
decode_last_utf8(s) ==
    DecodeLastAt(s, LastStart(s, Len(s) - 1, IF Len(s) >= 4 THEN Len(s) - 4 ELSE 0))

\* the completions of the split at i: prefix = unstable_bytes[..i]
SplitCompletions(bpe, unstable_bytes, i) ==
    LET prefix == SubSeq(unstable_bytes, 1, i)
        suffix == SubSeq(unstable_bytes, i + 1, Len(unstable_bytes))
        sorted == bpe.sorted_token_bytes
    IN {LET possibility == prefix \o tok
            encoded == IF from_utf8_ok(possibility)
                       THEN encode_ordinary_native(bpe, possibility)
                       ELSE byte_pair_encode(possibility, bpe.encoder)
        IN TruncateSeq(bpe, encoded, 0, Len(unstable_bytes))
        : tok \in WalkPrefix(sorted, partition_point(sorted, suffix), suffix)}

\* the re-encoding of the two halves around the last character last_decoded
ReEncodeHalves(bpe, unstable_bytes, last_decoded) ==
    IF /\ Len(unstable_bytes) - last_decoded[2] > 0
       /\ last_decoded[1] # -1 /\ is_whitespace(last_decoded[1])
    THEN {byte_pair_encode(SubSeq(unstable_bytes, 1,
                                  Len(unstable_bytes) - last_decoded[2]), bpe.encoder)
          \o byte_pair_encode(SubSeq(unstable_bytes,
                                     Len(unstable_bytes) - last_decoded[2] + 1,
                                     Len(unstable_bytes)), bpe.encoder)}
    ELSE {}

WhitespaceCompletions(bpe, unstable_bytes) ==
    IF Len(unstable_bytes) > 1
    THEN ReEncodeHalves(bpe, unstable_bytes, decode_last_utf8(unstable_bytes))
    ELSE {}

\* the completions of the unstable bytes: the tokens they are a prefix of, the
\* splits, and the whitespace re-encoding
Completions(bpe, unstable_bytes) ==
    {<<bpe.encoder[tok]>> :
        tok \in WalkPrefix(bpe.sorted_token_bytes,
                           partition_point(bpe.sorted_token_bytes, unstable_bytes),
                           unstable_bytes)}
    \cup UNION {SplitCompletions(bpe, unstable_bytes, i) :
                  i \in 1..(Len(unstable_bytes) - 1)}
    \cup WhitespaceCompletions(bpe, unstable_bytes)

\* the result once the unstable bytes are cut off the tokens
UnstableResult(bpe, tokens, unstable_bytes) ==
    IF unstable_bytes = <<>> THEN [tokens |-> tokens, completions |-> {}]
    ELSE [tokens |-> tokens, completions |-> Completions(bpe, unstable_bytes)]

\* tokens.truncate(..) after the last last_piece_token_len tokens are decoded
UnstableSplit(bpe, tokens, last_piece_token_len) ==
    UnstableResult(bpe,
        SubSeq(tokens, 1, Len(tokens) - last_piece_token_len),
        decode_native(bpe, SubSeq(tokens, Len(tokens) - last_piece_token_len + 1,
                                  Len(tokens))))

\* encode_unstable_native after its call of encode_native returned en
UnstableAfter(bpe, en) ==
    IF Panicked(en[1]) THEN [tokens |-> <<PANIC>>, completions |-> {}]
    ELSE IF en[2] = 0 THEN [tokens |-> en[1], completions |-> {}]
    ELSE UnstableSplit(bpe, en[1], increase_last_piece_token_len(bpe, en[1], en[2]))

\* [tokens, completions]
encode_unstable_native(bpe, text, allowed_special) ==
    UnstableAfter(bpe, encode_native(bpe, text, allowed_special))

\* a panic anywhere in the call: in the tokens or in one of the completions
UnstablePanicked(r) ==
    Panicked(r.tokens) \/ \E c \in r.completions : Panicked(c)

(***************************************************************************)
(* The inputs of construction the model draws from.                        *)
(***************************************************************************)
SpecialA == <<BLT, BBAR, BA, BBAR, BGT>>     \* "<|a|>"
SpecialB == <<BLT, BBAR, BB, BBAR, BGT>>     \* "<|b|>"

Alphabet == <<BA, BB, BSP, BLT, BBAR, BGT, BC3, BA9>>

\* every single byte of the alphabet, then the merges "bb", "aa", "aab",
\* "  " and the character C3 A9, ranks dense from 0
MergeRanks ==
    LET keys == [k \in 1..Len(Alphabet) |-> <<Alphabet[k]>>]
                \o << <<BB, BB>>, <<BA, BA>>, <<BA, BA, BB>>,
                      <<BSP, BSP>>, <<BC3, BA9>> >>
    IN [key \in {keys[k] : k \in DOMAIN keys} |->
          (CHOOSE k \in DOMAIN keys : keys[k] = key) - 1]

SpecialTokens == (SpecialA :> 13) @@ (SpecialB :> 14)

Patterns == {PatDotPlus, PatWords}

(***************************************************************************)
(* The OpenAI facade (tokenizer/openai.rs).  A Specials value is a record  *)
(* [all, coll]: Specials::All, or Specials::Collection(coll).  Every       *)
(* result is a record with a kind: "ok", "err" (with the error in err) or  *)
(* "panic".                                                                *)
(***************************************************************************)
NoVocab == -1      \* explicit_n_vocab = None

All == [all |-> TRUE, coll |-> {}]
Collection(S) == [all |-> FALSE, coll |-> S]

OpenAI_new(name, pattern_str, merge_able_ranks, special_tokens, explicit_n_vocab) ==
    IF DOMAIN merge_able_ranks = {}
    THEN [kind |-> "err", err |-> "ValueError"]
    ELSE LET max_merge_ranks == Max(Ranks(merge_able_ranks))
             max_special_tokens == IF DOMAIN special_tokens = {} THEN 0
                                   ELSE Max(Ranks(special_tokens))
             max_token_value == Max({max_merge_ranks, max_special_tokens})
             bpe == CoreBytePairEncoding_new(merge_able_ranks, special_tokens,
                                             pattern_str)
         IN IF /\ explicit_n_vocab # NoVocab
               /\ \/ Cardinality(DOMAIN merge_able_ranks)
                       + Cardinality(DOMAIN special_tokens) # explicit_n_vocab
                  \/ max_token_value # explicit_n_vocab - 1
            THEN [kind |-> "panic", err |-> "assert_eq"]
            ELSE IF bpe.kind # "ok" THEN [kind |-> bpe.kind, err |-> bpe.err]
            ELSE [kind |-> "ok", err |-> "",
                  enc |-> [name |-> name,
                           pattern |-> pattern_str,
                           merge_able_ranks |-> merge_able_ranks,
                           special_token |-> special_tokens,
                           max_token_value |-> max_token_value,
                           bpe_base |-> bpe.bpe]]

special_tokens_set(enc) == DOMAIN enc.special_token

\* the regex of a set of tokens joined by "|", none of them escaped: its
\* alternatives as literals
special_token_regex(tokens) == UNION {SplitOnBar(t, <<>>) : t \in tokens}

NormalizeAllowed(enc, allowed_special) ==
    IF allowed_special.all THEN special_tokens_set(enc) ELSE allowed_special.coll

\* a faulty variant: All is the full special set, the allowed ones included
NormalizeDisallowed_keepAllowed(enc, allowed, disallowed_special) ==
    IF disallowed_special.all THEN special_tokens_set(enc)
    ELSE disallowed_special.coll

NormalizeDisallowed(enc, allowed, disallowed_special) ==
    IF disallowed_special.all THEN special_tokens_set(enc) \ allowed
    ELSE disallowed_special.coll

validation_specials(enc, text, allowed_special, disallowed_special) ==
    LET allowed == NormalizeAllowed(enc, allowed_special)
        disallowed == NormalizeDisallowed(enc, allowed, disallowed_special)
        m == FindLiteralAt(special_token_regex(disallowed), text, 0)
    IN IF disallowed # {} /\ m[1] # -1
       THEN [kind |-> "err", err |-> "ValueError",
             name |-> SubSeq(text, m[1] + 1, m[2]), allowed |-> allowed]
       ELSE [kind |-> "ok", err |-> "", name |-> <<>>, allowed |-> allowed]

OpenAI_encode_ordinary(enc, text) ==
    LET tokens == encode_ordinary_native(enc.bpe_base, text)
    IN IF Panicked(tokens) THEN [kind |-> "panic", err |-> "", tokens |-> <<>>]
       ELSE [kind |-> "ok", err |-> "", tokens |-> tokens]

OpenAI_encode(enc, text, allowed_special, disallowed_special) ==
    LET v == validation_specials(enc, text, allowed_special, disallowed_special)
        tokens == encode_native(enc.bpe_base, text, v.allowed)[1]
    IN IF v.kind = "err"
       THEN [kind |-> "err", err |-> v.err, name |-> v.name, tokens |-> <<>>]
       ELSE IF Panicked(tokens)
       THEN [kind |-> "panic", err |-> "", name |-> <<>>, tokens |-> <<>>]
       ELSE [kind |-> "ok", err |-> "", name |-> <<>>, tokens |-> tokens]

\* encode on a given build of the regex crate
OpenAI_encode_built(enc, text, allowed_special, disallowed_special, past_end_panics) ==
    LET v == validation_specials(enc, text, allowed_special, disallowed_special)
        tokens == encode_native_built(enc.bpe_base, text, v.allowed, past_end_panics)[1]
    IN IF v.kind = "err"
       THEN [kind |-> "err", err |-> v.err, name |-> v.name, tokens |-> <<>>]
       ELSE IF Panicked(tokens)
       THEN [kind |-> "panic", err |-> "", name |-> <<>>, tokens |-> <<>>]
       ELSE [kind |-> "ok", err |-> "", name |-> <<>>, tokens |-> tokens]

\* text.iter().map(|str| self.bpe_base.encode_ordinary(str)).collect()
RECURSIVE MapEncodeOrdinary(_, _)
MapEncodeOrdinary(enc, text) ==
    IF text = <<>> THEN <<>>
    ELSE <<encode_ordinary_native(enc.bpe_base, Head(text))>>
         \o MapEncodeOrdinary(enc, Tail(text))

OpenAI_encode_ordinary_batch(enc, text) ==
    LET out == MapEncodeOrdinary(enc, text)
    IN IF \E k \in DOMAIN out : Panicked(out[k])
       THEN [kind |-> "panic", err |-> "", batch |-> <<>>]
       ELSE [kind |-> "ok", err |-> "", batch |-> out]

\* the for loop of encode_batch: `?` returns the first error, a panic unwinds
RECURSIVE EncodeBatchLoop(_, _, _, _, _)
EncodeBatchLoop(enc, text, allowed_special, disallowed_special, tokens) ==
    IF text = <<>> THEN [kind |-> "ok", err |-> "", name |-> <<>>, batch |-> tokens]
    ELSE LET r == OpenAI_encode(enc, Head(text), allowed_special, disallowed_special)
         IN IF r.kind # "ok"
            THEN [kind |-> r.kind, err |-> r.err, name |-> r.name, batch |-> <<>>]
            ELSE EncodeBatchLoop(enc, Tail(text), allowed_special,
                                 disallowed_special, Append(tokens, r.tokens))

OpenAI_encode_batch(enc, text, allowed_special, disallowed_special) ==
    EncodeBatchLoop(enc, text, allowed_special, disallowed_special, <<>>)

\* the result of encode_with_unstable from what the core returned
UnstableOutcome(r) ==
    IF UnstablePanicked(r)
    THEN [kind |-> "panic", err |-> "", name |-> <<>>,
          tokens |-> <<>>, completions |-> {}]
    ELSE [kind |-> "ok", err |-> "", name |-> <<>>,
          tokens |-> r.tokens, completions |-> r.completions]

\* encode_with_unstable after validation_specials returned v
WithUnstableAfter(enc, text, v) ==
    IF v.kind = "err"
    THEN [kind |-> "err", err |-> v.err, name |-> v.name,
          tokens |-> <<>>, completions |-> {}]
    ELSE UnstableOutcome(encode_unstable_native(enc.bpe_base, text, v.allowed))

OpenAI_encode_with_unstable(enc, text, allowed_special, disallowed_special) ==
    WithUnstableAfter(enc, text,
        validation_specials(enc, text, allowed_special, disallowed_special))

\* SingleInput::String(str) and SingleInput::Bytes(bytes) both reach the core
\* with the bytes of the input
OpenAI_encode_single_token(enc, text_or_bytes) ==
    CoreBytePairEncoding_encode_single_token(enc.bpe_base, text_or_bytes)

(***************************************************************************)
(* Decoding (tokenizer/openai.rs).  The facade's CoreBytePairEncoding is   *)
(* the one of counter/openai/bpe.rs; decode_single_token_bytes is the one  *)
(* of counter/token.rs.                                                    *)
(***************************************************************************)
Strict == "Strict"
Replace == "Replace"
Ignore == "Ignore"
BackSlashReplace == "BackSlashReplace"
DecodeErrorHandler == {Strict, Replace, Ignore, BackSlashReplace}

\* returns Vec<u8>: the bytes, or the panic of the HashMap index.  The decoding
\* routine of CoreBytePairEncoding in the sources is decode_native
OpenAI_decode_bytes(enc, token) ==
    LET bytes == decode_native(enc.bpe_base, token)
    IN IF Panicked(bytes) THEN [kind |-> "panic", err |-> "", bytes |-> <<>>]
       ELSE [kind |-> "ok", err |-> "", bytes |-> bytes]

\* a faulty variant: Strict replaces invalid bytes as Replace does
OpenAI_decode_lenient(enc, token, errors) ==
    LET b == OpenAI_decode_bytes(enc, token)
    IN IF b.kind = "panic" THEN [kind |-> "panic", err |-> "", text |-> <<>>]
       ELSE IF from_utf8_ok(b.bytes)
       THEN [kind |-> "ok", err |-> "", text |-> b.bytes]
       ELSE [kind |-> "ok", err |-> "",
             text |-> IF errors \in {Strict, Replace} THEN from_utf8_lossy(b.bytes)
                      ELSE IF errors = Ignore THEN from_utf8_ignore(b.bytes)
                      ELSE from_utf8_backslash(b.bytes)]

OpenAI_decode(enc, token, errors) ==
    LET b == OpenAI_decode_bytes(enc, token)
    IN IF b.kind = "panic" THEN [kind |-> "panic", err |-> "", text |-> <<>>]
       ELSE IF from_utf8_ok(b.bytes)
       THEN [kind |-> "ok", err |-> "", text |-> b.bytes]
       ELSE IF errors = Strict
       THEN [kind |-> "err", err |-> "ByteDecodeError", text |-> <<>>]
       ELSE [kind |-> "ok", err |-> "",
             text |-> IF errors = Replace THEN from_utf8_lossy(b.bytes)
                      ELSE IF errors = Ignore THEN from_utf8_ignore(b.bytes)
                      ELSE from_utf8_backslash(b.bytes)]

decode_single_token_bytes(bpe, token) ==
    IF token \in DOMAIN bpe.decoder
    THEN [kind |-> "ok", err |-> "", bytes |-> bpe.decoder[token]]
    ELSE IF token \in DOMAIN bpe.special_tokens_decoder
    THEN [kind |-> "ok", err |-> "", bytes |-> bpe.special_tokens_decoder[token]]
    ELSE [kind |-> "err", err |-> "KeyError", bytes |-> <<>>]

RECURSIVE DecodeTokensLoop(_, _, _)
DecodeTokensLoop(enc, tokens, res) ==
    IF tokens = <<>> THEN [kind |-> "ok", err |-> "", list |-> res]
    ELSE LET r == decode_single_token_bytes(enc.bpe_base, Head(tokens))
         IN IF r.kind # "ok" THEN [kind |-> r.kind, err |-> r.err, list |-> <<>>]
            ELSE DecodeTokensLoop(enc, Tail(tokens), Append(res, r.bytes))

OpenAI_decode_tokens_bytes(enc, tokens) == DecodeTokensLoop(enc, tokens, <<>>)

\* a faulty variant: every byte counts as a character
CountNonContinuation_allBytes(token) == Len(token)

\* token.iter().filter(|byte| !(0x80 <= byte && byte < 0xC0)).count()
CountNonContinuation(token) ==
    Cardinality({k \in DOMAIN token : ~IsContinuation(token[k])})

UsizeMAX == 2147483647  \* usize::MAX, what 0 - 1 wraps to; stands above every length

\* the for loop over token_bytes: the offsets pushed.  token[0] panics on an
\* empty token; text_len - 1 with text_len = 0 panics when overflow checks are
\* on (debug builds) and wraps when they are off (release builds)
RECURSIVE OffsetLoop(_, _, _, _)
OffsetLoop(token_bytes, text_len, offset, overflow_checks) ==
    IF token_bytes = <<>> THEN offset
    ELSE LET token == Head(token_bytes)
             sub == IF IsContinuation(token[1]) THEN 1 ELSE 0
         IN IF token = <<>> THEN Append(offset, PANIC)
            ELSE IF text_len - sub < 0 /\ overflow_checks THEN Append(offset, PANIC)
            ELSE OffsetLoop(Tail(token_bytes),
                            text_len + CountNonContinuation(token),
                            Append(offset, IF text_len - sub < 0 THEN UsizeMAX
                                           ELSE text_len - sub),
                            overflow_checks)

OpenAI_decode_with_offsets(enc, tokens, overflow_checks) ==
    LET tb == OpenAI_decode_tokens_bytes(enc, tokens)
        offset == OffsetLoop(tb.list, 0, <<>>, overflow_checks)
        bytes == Concat(tb.list)
    IN IF tb.kind # "ok"
       THEN [kind |-> tb.kind, err |-> tb.err, text |-> <<>>, offsets |-> <<>>]
       ELSE IF Panicked(offset)
       THEN [kind |-> "panic", err |-> "", text |-> <<>>, offsets |-> <<>>]
       ELSE IF ~from_utf8_ok(bytes)
       THEN [kind |-> "err", err |-> "ByteDecodeError",
             text |-> <<>>, offsets |-> <<>>]
       ELSE [kind |-> "ok", err |-> "", text |-> bytes, offsets |-> offset]

(***************************************************************************)
(* CoreBPE (counter/token.rs) and the TokenEncoding facade (counter.rs),   *)
(* over the same tables.  A call that never returns has kind "hang".       *)
(***************************************************************************)
tk_PieceTokens(bpe, piece) ==
    IF piece \in DOMAIN bpe.encoder THEN <<bpe.encoder[piece]>>
    ELSE tk_bytes_pair_encode(piece, bpe.encoder)

RECURSIVE tk_EncodePieces(_, _)
tk_EncodePieces(bpe, pieces) ==
    IF pieces = <<>> THEN <<>>
    ELSE tk_PieceTokens(bpe, Head(pieces)) \o tk_EncodePieces(bpe, Tail(pieces))

tk_encode_ordinary_native(bpe, text) ==
    tk_EncodePieces(bpe, find_iter(bpe.regex_tls, text, 0))

\* the outer loop never assigns `start`: after an allowed special match it
\* finds the same match again, so it returns only when there is no such match
tk_encode_native(bpe, text, allowed_special) ==
    LET next_special == NextSpecial(bpe, text, 0, allowed_special)
        pieces == find_iter(bpe.regex_tls, text, 0)
    IN IF next_special[1] >= 0
       THEN [kind |-> "hang", tokens |-> <<>>, last_piece_token_len |-> 0]
       ELSE [kind |-> "ok", tokens |-> tk_EncodePieces(bpe, pieces),
             last_piece_token_len |->
                 IF pieces = <<>> THEN 0
                 ELSE Len(tk_PieceTokens(bpe, pieces[Len(pieces)]))]

\* thread::spawn(..).join().unwrap_or_else(|_| Vec::new())
CoreBPE_encode_ordinary(bpe, text) ==
    LET tokens == tk_encode_ordinary_native(bpe, text)
    IN IF Panicked(tokens) THEN <<>> ELSE tokens

CoreBPE_encode(bpe, text, allowed_special) ==
    LET r == tk_encode_native(bpe, text, allowed_special)
    IN IF r.kind = "hang" THEN [kind |-> "hang", tokens |-> <<>>]
       ELSE [kind |-> "ok",
             tokens |-> IF Panicked(r.tokens) THEN <<>> ELSE r.tokens]

CoreBPE_decode_bytes(bpe, tokens) ==
    LET bytes == decode_native(bpe, tokens)
    IN IF Panicked(bytes) THEN <<>> ELSE bytes

(***************************************************************************)
(* encode_unstable_native of CoreBPE (counter/token.rs): the same steps    *)
(* over bytes_pair_encode and the encode_native of this file.              *)
(***************************************************************************)
\* the completions of the split at i: prefix = unstable_bytes[..i]
tk_SplitCompletions(bpe, unstable_bytes, i) ==
    LET prefix == SubSeq(unstable_bytes, 1, i)
        suffix == SubSeq(unstable_bytes, i + 1, Len(unstable_bytes))
        sorted == bpe.sorted_token_bytes
    IN {LET possibility == prefix \o tok
            encoded == IF from_utf8_ok(possibility)
                       THEN tk_encode_ordinary_native(bpe, possibility)
                       ELSE tk_bytes_pair_encode(possibility, bpe.encoder)
        IN TruncateSeq(bpe, encoded, 0, Len(unstable_bytes))
        : tok \in WalkPrefix(sorted, partition_point(sorted, suffix), suffix)}

\* the re-encoding of the two halves around the last character last_decoded
tk_ReEncodeHalves(bpe, unstable_bytes, last_decoded) ==
    IF /\ Len(unstable_bytes) - last_decoded[2] > 0
       /\ last_decoded[1] # -1 /\ is_whitespace(last_decoded[1])
    THEN {tk_bytes_pair_encode(SubSeq(unstable_bytes, 1,
                                  Len(unstable_bytes) - last_decoded[2]), bpe.encoder)
          \o tk_bytes_pair_encode(SubSeq(unstable_bytes,
                                     Len(unstable_bytes) - last_decoded[2] + 1,
                                     Len(unstable_bytes)), bpe.encoder)}
    ELSE {}

tk_WhitespaceCompletions(bpe, unstable_bytes) ==
    IF Len(unstable_bytes) > 1
    THEN tk_ReEncodeHalves(bpe, unstable_bytes, decode_last_utf8(unstable_bytes))
    ELSE {}

\* the completions of the unstable bytes: the tokens they are a prefix of, the
\* splits, and the whitespace re-encoding
tk_Completions(bpe, unstable_bytes) ==
    {<<bpe.encoder[tok]>> :
        tok \in WalkPrefix(bpe.sorted_token_bytes,
                           partition_point(bpe.sorted_token_bytes, unstable_bytes),
                           unstable_bytes)}
    \cup UNION {tk_SplitCompletions(bpe, unstable_bytes, i) :
                  i \in 1..(Len(unstable_bytes) - 1)}
    \cup tk_WhitespaceCompletions(bpe, unstable_bytes)

\* the result once the unstable bytes are cut off the tokens
tk_UnstableResult(bpe, tokens, unstable_bytes) ==
    IF unstable_bytes = <<>> THEN [tokens |-> tokens, completions |-> {}]
    ELSE [tokens |-> tokens, completions |-> tk_Completions(bpe, unstable_bytes)]

\* tokens.truncate(..) after the last last_piece_token_len tokens are decoded
tk_UnstableSplit(bpe, tokens, last_piece_token_len) ==
    tk_UnstableResult(bpe,
        SubSeq(tokens, 1, Len(tokens) - last_piece_token_len),
        decode_native(bpe, SubSeq(tokens, Len(tokens) - last_piece_token_len + 1,
                                  Len(tokens))))

\* encode_unstable_native after its call of encode_native returned en
tk_UnstableAfter(bpe, en) ==
    IF Panicked(en[1]) THEN [tokens |-> <<PANIC>>, completions |-> {}]
    ELSE IF en[2] = 0 THEN [tokens |-> en[1], completions |-> {}]
    ELSE tk_UnstableSplit(bpe, en[1], increase_last_piece_token_len(bpe, en[1], en[2]))

\* encode_unstable_native once its call of encode_native is over
tk_UnstableOf(bpe, en) ==
    IF en.kind = "hang" THEN [kind |-> "hang", tokens |-> <<>>, completions |-> {}]
    ELSE [kind |-> "ok"] @@ tk_UnstableAfter(bpe, <<en.tokens, en.last_piece_token_len>>)

\* [kind, tokens, completions]
tk_encode_unstable_native(bpe, text, allowed_special) ==
    tk_UnstableOf(bpe, tk_encode_native(bpe, text, allowed_special))

\* .join().unwrap_or_else(|_| (Vec::new(), HashSet::new()))
JoinUnstable(r) ==
    IF r.kind = "ok" /\ UnstablePanicked(r)
    THEN [kind |-> "ok", tokens |-> <<>>, completions |-> {}]
    ELSE r

CoreBPE_encode_with_unstable(bpe, text, allowed_special) ==
    JoinUnstable(tk_encode_unstable_native(bpe, text, allowed_special))

\* the regex of the escaped tokens: each token is one literal
parse_input_values(enc, text, allowed_special, disallowed_special) ==
    LET allowed == IF allowed_special.all THEN special_tokens_set(enc)
                   ELSE allowed_special.coll
        disallowed == IF disallowed_special.all
                      THEN special_tokens_set(enc) \ allowed
                      ELSE disallowed_special.coll
        m == FindLiteralAt(disallowed, text, 0)
    IN IF disallowed # {} /\ m[1] # -1
       THEN [kind |-> "err", err |-> "ValueError",
             name |-> SubSeq(text, m[1] + 1, m[2]), allowed |-> allowed]
       ELSE [kind |-> "ok", err |-> "", name |-> <<>>, allowed |-> allowed]

TokenEncoding_encode(enc, text, allowed_special, disallowed_special) ==
    LET v == parse_input_values(enc, text, allowed_special, disallowed_special)
        r == CoreBPE_encode(enc.bpe_base, text, v.allowed)
    IN IF v.kind = "err"
       THEN [kind |-> "err", err |-> v.err, name |-> v.name, tokens |-> <<>>]
       ELSE [kind |-> r.kind, err |-> "", name |-> <<>>, tokens |-> r.tokens]

\* text.par_iter().map(|str| self.encode(..)).collect(): the results in the
\* order of text, whatever the order they were computed in
RECURSIVE ParMapEncode(_, _, _, _)
ParMapEncode(enc, text, allowed_special, disallowed_special) ==
    IF text = <<>> THEN <<>>
    ELSE <<TokenEncoding_encode(enc, Head(text), allowed_special, disallowed_special)>>
         \o ParMapEncode(enc, Tail(text), allowed_special, disallowed_special)

RECURSIVE OutputsLoop(_, _)
OutputsLoop(outputs, out_vec) ==
    IF outputs = <<>> THEN [kind |-> "ok", err |-> "", name |-> <<>>, batch |-> out_vec]
    ELSE IF Head(outputs).kind = "err"
    THEN [kind |-> "err", err |-> Head(outputs).err, name |-> Head(outputs).name,
          batch |-> <<>>]
    ELSE OutputsLoop(Tail(outputs), Append(out_vec, Head(outputs).tokens))

TokenEncoding_encode_batch(enc, text, allowed_special, disallowed_special) ==
    LET outputs == ParMapEncode(enc, text, allowed_special, disallowed_special)
    IN IF \E k \in DOMAIN outputs : outputs[k].kind = "hang"
       THEN [kind |-> "hang", err |-> "", name |-> <<>>, batch |-> <<>>]
       ELSE OutputsLoop(outputs, <<>>)

(***************************************************************************)
(* The other constructors: OpenAI::new of counter/openai.rs, CoreBPE::new  *)
(* of counter/token.rs and TokenEncoding::new of counter.rs.               *)
(***************************************************************************)
\* Regex::new(pattern) of fancy_regex succeeds: look-around is supported
FancyRegexCompiles(pattern) == pattern \in {PatDotPlus, PatWords, PatGpt2}

\* n_vocab(): max_token_value + 1
n_vocab(e) == e.max_token_value + 1

CounterOpenAI_new(name, pattern_str, merge_ranks, special_tokens, explicit_n_vocab) ==
    IF DOMAIN merge_ranks = {}
    THEN [kind |-> "err", err |-> "ValueError"]
    ELSE LET max_merge_ranks == Max(Ranks(merge_ranks))
             max_special_tokens == IF DOMAIN special_tokens = {} THEN 0
                                   ELSE Max(Ranks(special_tokens))
             max_token_value == Max({max_merge_ranks, max_special_tokens})
             bpe == CoreBytePairEncoding_new(merge_ranks, special_tokens,
                                             pattern_str)
         IN IF /\ explicit_n_vocab # NoVocab
               /\ \/ Cardinality(DOMAIN merge_ranks)
                       + Cardinality(DOMAIN special_tokens) # explicit_n_vocab
                  \/ max_token_value # explicit_n_vocab - 1
            THEN [kind |-> "panic", err |-> "assert_eq"]
            ELSE IF bpe.kind # "ok" THEN [kind |-> bpe.kind, err |-> bpe.err]
            ELSE [kind |-> "ok", err |-> "",
                  enc |-> [name |-> name,
                           pattern |-> pattern_str,
                           merge_ranks |-> merge_ranks,
                           special_token |-> special_tokens,
                           max_token_value |-> max_token_value,
                           bpe_base |-> bpe.bpe]]

\* the special regex is built from the escaped tokens; the per-thread pools
\* hold MAX_NUM_THREADS clones of one regex, so a pool is its one regex
CoreBPE_new(encoder, special_tokens_encoder, pattern) ==
    IF ~FancyRegexCompiles(pattern)
    THEN [kind |-> "err", err |-> "RegexError"]
    ELSE IF Cardinality(DOMAIN encoder) # Cardinality(Ranks(encoder))
    THEN [kind |-> "panic", err |-> "assert_eq"]
    ELSE [kind |-> "ok", err |-> "",
          bpe |-> [encoder |-> encoder,
                   special_tokens_encoder |-> special_tokens_encoder,
                   decoder |-> Inverse(encoder),
                   special_tokens_decoder |-> Inverse(special_tokens_encoder),
                   regex_tls |-> pattern,
                   special_regex_tls |-> EscapedAlternation(DOMAIN special_tokens_encoder),
                   sorted_token_bytes |-> SortedSeq(DOMAIN encoder)]]

\* an empty mergeable_ranks has no maximum: the maximum is taken as 0.
\* explicit_vocab_num - 1 is a u32: with 0 it either panics (overflow checks)
\* or wraps to u32::MAX, which max_token_value never equals: a panic both ways
TokenEncoding_new(name, pat_str, mergeable_ranks, special_tokens, explicit_n_vocab) ==
    LET mergeable_ranks_max == IF DOMAIN mergeable_ranks = {} THEN 0
                               ELSE Max(Ranks(mergeable_ranks))
        special_tokens_max == IF DOMAIN special_tokens = {} THEN 0
                              ELSE Max(Ranks(special_tokens))
        max_token_value == Max({mergeable_ranks_max, special_tokens_max})
        core_bpe == CoreBPE_new(mergeable_ranks, special_tokens, pat_str)
    IN IF /\ explicit_n_vocab # NoVocab
          /\ \/ Cardinality(DOMAIN mergeable_ranks)
                  + Cardinality(DOMAIN special_tokens) # explicit_n_vocab
             \/ max_token_value # explicit_n_vocab - 1
       THEN [kind |-> "panic", err |-> "assert_eq"]
       ELSE IF core_bpe.kind # "ok"
       THEN [kind |-> core_bpe.kind, err |-> core_bpe.err]
       ELSE [kind |-> "ok", err |-> "",
             enc |-> [name |-> name,
                      pat_str |-> pat_str,
                      mergeable_ranks |-> mergeable_ranks,
                      special_tokens |-> special_tokens,
                      max_token_value |-> max_token_value,
                      core_bpe |-> core_bpe.bpe]]

(***************************************************************************)
(* The tables construction is tried with: none, two single bytes, two      *)
(* bytes sharing a rank, and the full table.                               *)
(***************************************************************************)
MaxVocab == 3

EmptyRanks == [key \in {} |-> 0]
SmallRanks == (<<BA>> :> 0) @@ (<<BB>> :> 1)
CollidingRanks == (<<BA>> :> 0) @@ (<<BB>> :> 0)

ConstructRanks == {EmptyRanks, SmallRanks, CollidingRanks, MergeRanks}
ConstructSpecials == {EmptyRanks, SpecialA :> 2, SpecialTokens}
ConstructPatterns == {PatDotPlus, PatWords, PatGpt2}
ExplicitVocabs == {NoVocab} \cup 0..MaxVocab

(***************************************************************************)
(* The encodings shipped (counter/openai/openai_sets.rs): Models and       *)
(* Models::get_input.                                                      *)
(***************************************************************************)
ENDOFTEXT == "<|endoftext|>"
FIM_PREFIX == "<|fim_prefix|>"
FIM_MIDDLE == "<|fim_middle|>"
FIM_SUFFIX == "<|fim_middle|>"
ENDOFPROMPT == "<|endofprompt|>"

PatCl100k == "'(?i:[sdmt]|ll|ve|re)|[^\\r\\n\\p{L}\\p{N}]?+\\p{L}+|\\p{N}{1,3}| ?[^\\s\\p{L}\\p{N}]++[\\r\\n]*|\\s*[\\r\\n]|\\s+(?!\\S)|\\s+"

Models == {"gpt2", "r50k_base", "p50k_base", "p50k_edit", "cl100k_base"}

\* [..].iter().cloned().collect::<HashMap<_, u32>>(): a later pair replaces an
\* earlier pair of the same key
RECURSIVE CollectMap(_)
CollectMap(pairs) ==
    IF pairs = <<>> THEN EmptyRanks
    ELSE LET last == pairs[Len(pairs)]
         IN (last[1] :> last[2]) @@ CollectMap(SubSeq(pairs, 1, Len(pairs) - 1))

ModelSpecialTokens(model) ==
    CASE model \in {"gpt2", "r50k_base", "p50k_base"} ->
           CollectMap(<< <<ENDOFTEXT, 50256>> >>)
      [] model = "p50k_edit" ->
           CollectMap(<< <<ENDOFTEXT, 50256>>, <<FIM_PREFIX, 50281>>,
                         <<FIM_MIDDLE, 50282>>, <<FIM_SUFFIX, 50283>> >>)
      [] model = "cl100k_base" ->
           CollectMap(<< <<ENDOFTEXT, 100257>>, <<FIM_PREFIX, 100258>>,
                         <<FIM_MIDDLE, 100259>>, <<FIM_SUFFIX, 100260>>,
                         <<ENDOFPROMPT, 100276>> >>)

ModelExplicitVocab(model) ==
    CASE model \in {"gpt2", "r50k_base"} -> 50257
      [] model = "p50k_base" -> 50281
      [] OTHER -> NoVocab

\* loaded is what load_bpe / data_gym_to_mergeable_bpe_ranks returned
Models_get_input(model, loaded) ==
    IF loaded.kind # "ok" THEN [kind |-> loaded.kind, err |-> loaded.err]
    ELSE [kind |-> "ok", err |-> "",
          input |-> [name |-> model,
                     pattern |-> IF model = "cl100k_base" THEN PatCl100k
                                 ELSE PatGpt2,
                     merge_able_ranks |-> loaded.ranks,
                     special_tokens |-> ModelSpecialTokens(model),
                     explicit_n_vocab |-> ModelExplicitVocab(model)]]

\* the outcomes of loading the rank file: the table, or a failure of the
\* download
LoadOutcomes ==
    {[kind |-> "ok", err |-> "", ranks |-> MergeRanks],
     [kind |-> "err", err |-> "IOError", ranks |-> EmptyRanks]}

(***************************************************************************)
(* The model names (tokenizer/openai/models.rs).  A name is the sequence   *)
(* of its characters.                                                      *)
(***************************************************************************)
MODEL_PREFIX_TO_CL100K_BASE ==
    << <<"g", "p", "t", "-", "4", "-">>,    \* gpt-4-
       <<"g", "p", "t", "-", "3", ".", "5", "-", "t", "u", "r", "b", "o", "-">>,    \* gpt-3.5-turbo-
       <<"g", "p", "t", "-", "3", "5", "-", "t", "u", "r", "b", "o", "-">>,    \* gpt-35-turbo-
       <<"f", "t", ":", "g", "p", "t", "-", "4">>,    \* ft:gpt-4
       <<"f", "t", ":", "g", "p", "t", "-", "3", ".", "5">>,    \* ft:gpt-3.5
       <<"f", "t", ":", "d", "a", "v", "i", "n", "c", "i", "-", "0", "0", "2">>,    \* ft:davinci-002
       <<"f", "t", ":", "b", "a", "b", "b", "a", "g", "e", "-", "0", "0", "2">> >>    \* ft:babbage-002

CL100K_BASE ==
    << <<"g", "p", "t", "-", "4">>,    \* gpt-4
       <<"g", "p", "t", "-", "3", ".", "5", "-", "t", "u", "r", "b", "o">>,    \* gpt-3.5-turbo
       <<"g", "p", "t", "-", "3", ".", "5">>,    \* gpt-3.5
       <<"g", "p", "t", "-", "3", "5", "-", "t", "u", "r", "b", "o">>,    \* gpt-35-turbo
       <<"d", "a", "v", "i", "n", "c", "i", "-", "0", "0", "2">>,    \* davinci-002
       <<"b", "a", "b", "b", "a", "g", "e", "-", "0", "0", "2">>,    \* babbage-002
       <<"t", "e", "x", "t", "-", "e", "m", "b", "e", "d", "d", "i", "n", "g", "-", "a", "d", "a", "-", "0", "0", "2">>,    \* text-embedding-ada-002
       <<"t", "e", "x", "t", "-", "e", "m", "b", "e", "d", "d", "i", "n", "g", "-", "3", "-", "s", "m", "a", "l", "l">>,    \* text-embedding-3-small
       <<"t", "e", "x", "t", "-", "e", "m", "b", "e", "d", "d", "i", "n", "g", "-", "3", "-", "l", "a", "r", "g", "e">> >>    \* text-embedding-3-large

P50K_BASE ==
    << <<"t", "e", "x", "t", "-", "d", "a", "v", "i", "n", "c", "i", "-", "0", "0", "3">>,    \* text-davinci-003
       <<"t", "e", "x", "t", "_", "d", "a", "v", "i", "n", "c", "i", "-", "0", "0", "2">>,    \* text_davinci-002
       <<"c", "o", "d", "e", "-", "d", "a", "v", "i", "n", "c", "i", "-", "0", "0", "2">>,    \* code-davinci-002
       <<"c", "o", "d", "e", "-", "d", "a", "v", "i", "n", "c", "i", "-", "0", "0", "1">>,    \* code-davinci-001
       <<"c", "o", "d", "e", "-", "c", "u", "s", "h", "m", "a", "n", "-", "0", "0", "2">>,    \* code-cushman-002
       <<"c", "o", "d", "e", "-", "c", "u", "s", "h", "m", "a", "n", "-", "0", "0", "1">>,    \* code-cushman-001
       <<"d", "a", "v", "i", "n", "c", "i", "-", "c", "o", "d", "e", "x">>,    \* davinci-codex
       <<"c", "u", "s", "h", "m", "a", "n", "-", "c", "o", "d", "e", "x">> >>    \* cushman-codex

R50K_BASE ==
    << <<"t", "e", "x", "t", "-", "d", "a", "v", "i", "n", "c", "i", "-", "0", "0", "1">>,    \* text-davinci-001
       <<"t", "e", "x", "t", "-", "c", "u", "r", "i", "e", "-", "0", "0", "1">>,    \* text-curie-001
       <<"t", "e", "x", "t", "-", "b", "a", "b", "b", "a", "g", "e", "-", "0", "0", "1">>,    \* text-babbage-001
       <<"t", "e", "x", "t", "-", "a", "d", "a", "-", "0", "0", "1">>,    \* text-ada-001
       <<"d", "a", "v", "i", "n", "c", "i">>,    \* davinci
       <<"c", "u", "r", "i", "e">>,    \* curie
       <<"b", "a", "b", "b", "a", "g", "e">>,    \* babbage
       <<"a", "d", "a">>,    \* ada
       <<"t", "e", "x", "t", "-", "s", "i", "m", "i", "l", "a", "r", "i", "t", "y", "-", "d", "a", "v", "i", "n", "c", "i", "-", "0", "0", "1">>,    \* text-similarity-davinci-001
       <<"t", "e", "x", "t", "-", "s", "i", "m", "i", "l", "a", "r", "i", "t", "y", "-", "c", "u", "r", "i", "e", "-", "0", "0", "1">>,    \* text-similarity-curie-001
       <<"t", "e", "x", "t", "-", "s", "i", "m", "i", "l", "a", "r", "i", "t", "y", "-", "b", "a", "b", "b", "a", "g", "e", "-", "0", "0", "1">>,    \* text-similarity-babbage-001
       <<"t", "e", "x", "t", "-", "s", "i", "m", "i", "l", "a", "r", "i", "t", "y", "-", "a", "d", "a", "-", "0", "0", "1">>,    \* text-similarity-ada-001
       <<"t", "e", "x", "t", "-", "s", "e", "a", "r", "c", "h", "-", "d", "a", "v", "i", "n", "c", "i", "-", "d", "o", "c", "-", "0", "0", "1">>,    \* text-search-davinci-doc-001
       <<"t", "e", "x", "t", "-", "s", "e", "a", "r", "c", "h", "-", "c", "u", "r", "i", "e", "-", "d", "o", "c", "-", "0", "0", "1">>,    \* text-search-curie-doc-001
       <<"t", "e", "x", "t", "-", "s", "e", "a", "r", "c", "h", "-", "b", "a", "b", "b", "a", "g", "e", "-", "d", "o", "c", "-", "0", "0", "1">>,    \* text-search-babbage-doc-001
       <<"t", "e", "x", "t", "-", "s", "e", "a", "r", "c", "h", "-", "a", "d", "a", "-", "d", "o", "c", "-", "0", "0", "1">>,    \* text-search-ada-doc-001
       <<"t", "e", "x", "t", "-", "s", "e", "a", "r", "c", "h", "-", "b", "a", "b", "b", "a", "g", "e", "-", "c", "o", "d", "e", "-", "0", "0", "1">>,    \* text-search-babbage-code-001
       <<"t", "e", "x", "t", "-", "s", "e", "a", "r", "c", "h", "-", "a", "d", "a", "-", "c", "o", "d", "e", "-", "0", "0", "1">> >>    \* text-search-ada-code-001

P50K_EDIT ==
    << <<"t", "e", "x", "t", "-", "d", "a", "v", "i", "n", "c", "i", "-", "e", "d", "i", "t", "-", "0", "0", "1">>,    \* text-davinci-edit-001
       <<"c", "o", "d", "e", "-", "d", "a", "v", "i", "n", "c", "i", "-", "e", "d", "i", "t", "-", "0", "0", "1">> >>    \* code-davinci-edit-001

GPT2 ==
    << <<"g", "p", "t", "2">>,    \* gpt2
       <<"g", "p", "t", "-", "2">> >>    \* gpt-2

\* <[&str]>::contains
Contains(table, model_name) == \E k \in DOMAIN table : table[k] = model_name

\* a faulty variant: the prefixes are not looked at
encoding_name_for_model_exactOnly(model_name) ==
    IF Contains(CL100K_BASE, model_name)
    THEN [kind |-> "ok", err |-> "", name |-> "cl100k_base"]
    ELSE IF Contains(P50K_BASE, model_name)
    THEN [kind |-> "ok", err |-> "", name |-> "p50k_base"]
    ELSE IF Contains(R50K_BASE, model_name)
    THEN [kind |-> "ok", err |-> "", name |-> "r50k_base"]
    ELSE IF Contains(P50K_EDIT, model_name)
    THEN [kind |-> "ok", err |-> "", name |-> "p50k_edit"]
    ELSE IF Contains(GPT2, model_name)
    THEN [kind |-> "ok", err |-> "", name |-> "gpt2"]
    ELSE [kind |-> "err", err |-> "ModelNotFound", name |-> ""]

encoding_name_for_model(model_name) ==
    IF \/ Contains(CL100K_BASE, model_name)
       \/ \E k \in DOMAIN MODEL_PREFIX_TO_CL100K_BASE :
             StartsWith(model_name, MODEL_PREFIX_TO_CL100K_BASE[k])
    THEN [kind |-> "ok", err |-> "", name |-> "cl100k_base"]
    ELSE IF Contains(P50K_BASE, model_name)
    THEN [kind |-> "ok", err |-> "", name |-> "p50k_base"]
    ELSE IF Contains(R50K_BASE, model_name)
    THEN [kind |-> "ok", err |-> "", name |-> "r50k_base"]
    ELSE IF Contains(P50K_EDIT, model_name)
    THEN [kind |-> "ok", err |-> "", name |-> "p50k_edit"]
    ELSE IF Contains(GPT2, model_name)
    THEN [kind |-> "ok", err |-> "", name |-> "gpt2"]
    ELSE [kind |-> "err", err |-> "ModelNotFound", name |-> ""]

\* the names asked for: every listed name and prefix, each of them with a
\* character more and with its last character gone, and names of no table
Elems(table) == {table[k] : k \in DOMAIN table}
ListedNames ==
    Elems(MODEL_PREFIX_TO_CL100K_BASE) \cup Elems(CL100K_BASE)
    \cup Elems(P50K_BASE) \cup Elems(R50K_BASE) \cup Elems(P50K_EDIT)
    \cup Elems(GPT2)
ModelNames ==
    ListedNames
    \cup {Append(n, c) : n \in ListedNames, c \in {"0", "o"}}
    \cup {SubSeq(n, 1, Len(n) - 1) : n \in ListedNames}
    \cup {<<>>, <<"t", "e", "x", "t", "-", "d", "a", "v", "i", "n", "c", "i", "-", "0", "0", "2">>, <<"G", "P", "T", "-", "4">>}

(***************************************************************************)
(* The inputs of the calls.                                                *)
(***************************************************************************)
PlainAtoms == {<<BA>>, <<BB>>, <<BSP>>, <<BLT>>, <<BC3, BA9>>}
Atoms == {<<BA>>, <<BSP>>, <<BLT>>, SpecialA, SpecialB}

\* the texts of at most n atoms: always valid UTF-8, as a &str is
RECURSIVE TextsOf(_, _)
TextsOf(atoms, n) ==
    IF n = 0 THEN {<<>>}
    ELSE LET T == TextsOf(atoms, n - 1) IN T \cup {t \o a : t \in T, a \in atoms}

RECURSIVE SeqsOf(_, _)
SeqsOf(S, n) ==
    IF n = 0 THEN {<<>>}
    ELSE LET T == SeqsOf(S, n - 1) IN T \cup {Append(t, x) : t \in T, x \in S}

OrdinaryTexts == TextsOf(PlainAtoms, MaxAtoms)
SpecialTexts == TextsOf(Atoms, MaxSpecAtoms)
BatchTexts == TextsOf(Atoms, 1)
SpecialsArgs == {All} \cup {Collection(S) : S \in SUBSET DOMAIN SpecialTokens}
\* a rank above every rank of the vocabulary
UnknownRank == Max(Ranks(MergeRanks) \cup Ranks(SpecialTokens)) + 1
DecodeRanks == {0, 2, 6, 7, 12, 13, UnknownRank}
SingleInputs ==
    (SeqsOf({Alphabet[k] : k \in DOMAIN Alphabet}, 2) \ {<<>>})
    \cup {SpecialA, SpecialB, <<BA, BA, BB>>}

NoRes == [kind |-> "none", err |-> ""]

(***************************************************************************)
(* The per-thread regex pools of CoreBPE (counter/token.rs).  Every call   *)
(* clones the engine and runs its native function on a thread of its own;  *)
(* that thread takes the regex at the slot its thread id hashes to.        *)
(***************************************************************************)
MAX_NUM_THREADS == 128

\* the thread id, a non-zero u64, cast to usize: the bits above the width of
\* usize are dropped
hash_current_thread(id) == IF id <= UsizeMAX THEN id ELSE (id - UsizeMAX) - 1

\* (0..MAX_NUM_THREADS).map(|_| regex.clone()).collect()
RegexPool(regex) == [k \in 0..(MAX_NUM_THREADS - 1) |-> regex]

\* a faulty variant: the slots hold different regexes
get_tl_regex_perSlot(bpe, id) ==
    IF (hash_current_thread(id) % MAX_NUM_THREADS) % 2 = 1
    THEN PatDotPlus ELSE PatWords

get_tl_regex(bpe, id) ==
    RegexPool(bpe.regex_tls)[hash_current_thread(id) % MAX_NUM_THREADS]

get_tl_special_regex(bpe, id) ==
    RegexPool(bpe.special_regex_tls)[hash_current_thread(id) % MAX_NUM_THREADS]

\* the engine as the native functions of one thread see it
WorkerBpe(bpe, regex, special_regex) ==
    [bpe EXCEPT !.regex_tls = regex, !.special_regex_tls = special_regex]

\* what the call returns to its caller, over the engine bpe
ThreadResult(bpe, call) ==
    CASE call.op = "encode_ordinary" ->
           [kind |-> "ok", tokens |-> CoreBPE_encode_ordinary(bpe, call.text)]
      [] call.op = "encode" -> CoreBPE_encode(bpe, call.text, call.allowed)
      [] call.op = "encode_with_unstable" ->
           CoreBPE_encode_with_unstable(bpe, call.text, call.allowed)
      [] call.op = "decode_bytes" ->
           [kind |-> "ok", bytes |-> CoreBPE_decode_bytes(bpe, call.tokens)]

MaxThreads == 2

Callers == 1..MaxThreads
\* ids the runtime may give a new thread; two of them hash to one slot
ThreadIds == Callers \cup {1 + MAX_NUM_THREADS}

ThreadCall(o, text, tokens, allowed) ==
    [op |-> o, text |-> text, tokens |-> tokens, allowed |-> allowed]

ThreadCalls ==
    {ThreadCall("encode_ordinary", <<BA, BSP, BA>>, <<>>, {})}
    \cup {ThreadCall("encode", SpecialA, <<>>, al) : al \in {{}, {SpecialA}}}
    \cup {ThreadCall("encode_with_unstable", <<BA, BSP, BA>>, <<>>, {})}
    \cup {ThreadCall("decode_bytes", <<>>, t, {}) : t \in {<<9, 2>>, <<UnknownRank>>}}

NoCall == ThreadCall("none", <<>>, <<>>, {})
IdleThread ==
    [pc |-> "idle", call |-> NoCall, id |-> 0, regex |-> "",
     special_regex |-> {}, res |-> NoRes]

(***************************************************************************)
(* The rank-file cache (counter/openai/load.rs).  A path is the sequence   *)
(* of its components; the file system is [dirs, files]: the directories,   *)
(* and the content of every file.  A blob path is [scheme, rest].          *)
(***************************************************************************)
BlobPath(scheme, rest) == [scheme |-> scheme, rest |-> rest]

R50kUrl == BlobPath("https://", "openaipublic.blob.core.windows.net/encodings/r50k_base.tiktoken")
P50kUrl == BlobPath("https://", "openaipublic.blob.core.windows.net/encodings/p50k_base.tiktoken")
LocalBlob == BlobPath("", "vocab.bpe")
BlobPaths == {R50kUrl, P50kUrl, LocalBlob}

\* the contents a blob is seen with
BlobContents == {<<BA>>, <<BB>>}

\* convert_to_hex of the SHA-1 of the blob path: lowercase hex
Sha1Hex(blobpath) ==
    CASE blobpath = R50kUrl -> "0ea1e91bbb3a60f729a8dc8f777fd2fc07cd8df4"
      [] blobpath = P50kUrl -> "ec7223a39ce59f226a68acc30dc1af2788490e15"
      [] blobpath = LocalBlob -> "4dfeaa6167279c3edda31885503c98a91e46494e"

\* convert_to_hex of the SHA-256 of the data: lowercase hex
Sha256Hex(data) ==
    CASE data = <<BA>> -> "ca978112ca1bbdcafac231b39a23dc4da786eff8147c4e72b9807785afee48bb"
      [] data = <<BB>> -> "3e23e8160039594a33894f6564e1b1348bbd7a0088d42c4acb73eeaed59c009d"
      [] data = <<>> -> "e3b0c44298fc1c149afbf4c8996fb92427ae41e4649b934ca495991b7852b855"

check_hash(data, expected_hash) == Sha256Hex(data) = expected_hash

NoHash == "None"      \* expected_hash = None
ExpectedHashes == {NoHash, Sha256Hex(<<BA>>)}

IOFail == [kind |-> "err", err |-> "IOError"]

Parent(path) == SubSeq(path, 1, Len(path) - 1)
IsDir(fs, path) == path = <<>> \/ path \in fs.dirs
IsFile(fs, path) == path \in DOMAIN fs.files
exists(fs, path) == IsDir(fs, path) \/ IsFile(fs, path)

\* File::open and read_to_end
OpenRead(fs, path) ==
    IF IsFile(fs, path)
    THEN [kind |-> "ok", err |-> "", content |-> fs.files[path]]
    ELSE IOFail

remove_file(fs, path) ==
    IF IsFile(fs, path)
    THEN [kind |-> "ok", err |-> "",
          fs |-> [fs EXCEPT !.files =
                    [p \in DOMAIN fs.files \ {path} |-> fs.files[p]]]]
    ELSE IOFail

create_dir_all(fs, path) ==
    IF \E n \in 1..Len(path) : IsFile(fs, SubSeq(path, 1, n))
    THEN IOFail
    ELSE [kind |-> "ok", err |-> "",
          fs |-> [fs EXCEPT !.dirs =
                    fs.dirs \cup {SubSeq(path, 1, n) : n \in 1..Len(path)}]]

\* File::create and write_all: the parent has to be a directory
CreateWrite(fs, path, contents) ==
    IF path # <<>> /\ IsDir(fs, Parent(path)) /\ ~IsDir(fs, path)
    THEN [kind |-> "ok", err |-> "",
          fs |-> [fs EXCEPT !.files = (path :> contents) @@ fs.files]]
    ELSE IOFail

rename(fs, from, to) ==
    IF IsFile(fs, from) /\ IsDir(fs, Parent(to)) /\ ~IsDir(fs, to)
    THEN [kind |-> "ok", err |-> "",
          fs |-> [fs EXCEPT !.files =
                    (to :> fs.files[from])
                    @@ [p \in DOMAIN fs.files \ {from} |-> fs.files[p]]]]
    ELSE IOFail

\* what the server sends for a URL: the blob, or nothing
Remote == {[kind |-> "ok", err |-> "", content |-> c] : c \in BlobContents}
          \cup {IOFail}

\* read_file: a path that is no URL is opened as a file; a URL is fetched,
\* remote being what the server sends
read_file(fs, blobpath, remote) ==
    IF blobpath.scheme \notin {"http://", "https://"}
    THEN OpenRead(fs, IF blobpath.rest = "" THEN <<>> ELSE <<blobpath.rest>>)
    ELSE remote

\* the cache directory: TIKTOKEN_CACHE_DIR or DATA_GYM_CACHE_DIR when set
\* (possibly to the empty path), temp_dir()/data-gym-cache otherwise
TempDir == <<"tmp">>
DefaultCacheDir == TempDir \o <<"data-gym-cache">>
CacheDirs == {DefaultCacheDir, <<"cache">>, <<>>}

CachePath(cache_dir, blobpath) == cache_dir \o <<Sha1Hex(blobpath)>>

\* the name of the temporary file: cache_path.join(".<uuid>.tmp")
Uuids == {"6fa459ea-ee8a-3ca4-894e-db77e160355e"}
TempFileName(cache_path, uuid) == cache_path \o <<uuid>>

\* the lookup of read_cached_file, lines 70 to 93: "return" with the result,
\* or "fetch" with the file system after a stale entry is removed
CacheLookup(fs, blobpath, expected_hash, cache_dir) ==
    LET cache_path == CachePath(cache_dir, blobpath)
        rd == OpenRead(fs, cache_path)
        rm == remove_file(fs, cache_path)
    IN IF cache_dir = <<>>
       THEN [next |-> "return", fs |-> fs,
             res |-> read_file(fs, BlobPath("", ""), IOFail)]
       ELSE IF ~exists(fs, cache_path)
       THEN [next |-> "fetch", fs |-> fs, res |-> NoRes]
       ELSE IF /\ rd.kind = "ok" /\ expected_hash # NoHash
               /\ check_hash(rd.content, expected_hash)
       THEN [next |-> "return", fs |-> fs, res |-> rd]
       ELSE IF rm.kind # "ok"
       THEN [next |-> "return", fs |-> fs, res |-> rm]
       ELSE [next |-> "fetch", fs |-> rm.fs, res |-> NoRes]

\* lines 106 to 116: the temporary file is created and written, then renamed
\* onto the cache path
WriteCache(fs, cache_path, uuid, contents) ==
    LET temp_file_name == TempFileName(cache_path, uuid)
        cw == CreateWrite(fs, temp_file_name, contents)
        rn == rename(cw.fs, temp_file_name, cache_path)
    IN IF cw.kind # "ok" THEN [fs |-> fs, res |-> cw]
       ELSE IF rn.kind # "ok" THEN [fs |-> cw.fs, res |-> rn]
       ELSE [fs |-> rn.fs,
             res |-> [kind |-> "ok", err |-> "", content |-> contents]]

IdleCache ==
    [pc |-> "idle", blobpath |-> LocalBlob, expected_hash |-> NoHash,
     cache_dir |-> <<>>, cached |-> FALSE, found |-> <<>>, contents |-> <<>>,
     res |-> NoRes]

\* the file systems a first call may find: the local blob, and the cache of
\* the r50k URL absent, holding the blob, or holding something else
EmptyFs == [dirs |-> {TempDir}, files |-> (<<"vocab.bpe">> :> <<BA>>)]
InitialFs ==
    {EmptyFs, [EmptyFs EXCEPT !.dirs = {TempDir, DefaultCacheDir}]}
    \cup {[dirs |-> {TempDir, DefaultCacheDir},
           files |-> (CachePath(DefaultCacheDir, R50kUrl) :> c) @@ EmptyFs.files] :
            c \in BlobContents}

(***************************************************************************)
(* The calls of the pair-merge kernel on its own: the tables and pieces    *)
(* byte_pair_split / byte_pair_encode (counter/openai/bpe.rs) and          *)
(* bytes_pair_split / bytes_pair_encode (counter/token.rs) are run on.     *)
(***************************************************************************)
MaxPiece == 4

BC == 99
BD == 100

\* setup_ranks() of the tests
TestRanks == (<<BA, BB>> :> 0) @@ (<<BC, BD>> :> 1)
\* "cd" first, then "ab", then "abc" = "ab" + "c"
ChainRanks == (<<BC, BD>> :> 0) @@ (<<BA, BB>> :> 1) @@ (<<BA, BB, BC>> :> 2)

KernelTables == {TestRanks, ChainRanks, MergeRanks}
KernelPieces == SeqsOf({BA, BB, BC, BD}, MaxPiece)

IdleKernel ==
    [pc |-> "idle", tk |-> FALSE, fn |-> "none", ranks |-> EmptyRanks,
     piece |-> <<>>, parts |-> <<>>, before |-> <<>>, i |-> -1, steps |-> 0,
     res |-> <<>>]

(***************************************************************************)
(* The state: one Encoding, and the call a client has made on it.          *)
(***************************************************************************)
VARIABLES
    enc,      \* the Encoding, as OpenAI::new built it
    pc,       \* "idle", "running" (inside a call) or "done" (the call is over)
    op,       \* the operation of the call
    arg,      \* its arguments
    res,      \* its result
    depth,    \* frames of TokenEncoding::encode_ordinary on the stack
    threads,  \* the concurrent calls on the engine: one record per caller
    fs,       \* the file system the rank files are cached in
    rc,       \* the call of read_cached_file in progress
    kn        \* the call of the pair-merge kernel in progress

\* the state of the single client, and the state the other processes add
main == <<pc, op, arg, res, depth>>
cache == <<fs, rc>>
aux == <<threads, cache, kn>>
vars == <<enc, pc, op, arg, res, depth, threads, fs, rc, kn>>

NoArg == [text |-> <<>>]

Init ==
    /\ enc \in {OpenAI_new("model", p, MergeRanks, SpecialTokens, NoVocab).enc :
                  p \in Patterns}
    /\ pc = "idle"
    /\ op = "none"
    /\ arg = NoArg
    /\ res = NoRes
    /\ depth = 0
    /\ threads = [c \in Callers |-> IdleThread]
    /\ fs = EmptyFs
    /\ rc = IdleCache
    /\ kn = IdleKernel

\* a call that runs to its end in one step
Finish(o, a, r) ==
    /\ pc' = "done"
    /\ op' = o
    /\ arg' = a
    /\ res' = r
    /\ UNCHANGED <<aux, enc, depth>>

EncodeOrdinary ==
    /\ pc = "idle"
    /\ \E text \in OrdinaryTexts :
        Finish("encode_ordinary", [text |-> text], OpenAI_encode_ordinary(enc, text))

Encode ==
    /\ pc = "idle"
    /\ \E text \in SpecialTexts, allowed \in SpecialsArgs, disallowed \in SpecialsArgs :
        Finish("encode",
               [text |-> text, allowed |-> allowed, disallowed |-> disallowed],
               OpenAI_encode(enc, text, allowed, disallowed))

EncodeOrdinaryBatch ==
    /\ pc = "idle"
    /\ \E text \in SeqsOf(BatchTexts, MaxBatch) :
        Finish("encode_ordinary_batch", [batch |-> text],
               OpenAI_encode_ordinary_batch(enc, text))

EncodeBatch ==
    /\ pc = "idle"
    /\ \E text \in SeqsOf(BatchTexts, MaxBatch),
       allowed \in SpecialsArgs, disallowed \in SpecialsArgs :
        Finish("encode_batch",
               [batch |-> text, allowed |-> allowed, disallowed |-> disallowed],
               OpenAI_encode_batch(enc, text, allowed, disallowed))

EncodeWithUnstable ==
    /\ pc = "idle"
    /\ \E text \in SpecialTexts, allowed \in SpecialsArgs, disallowed \in SpecialsArgs :
        Finish("encode_with_unstable",
               [text |-> text, allowed |-> allowed, disallowed |-> disallowed],
               OpenAI_encode_with_unstable(enc, text, allowed, disallowed))

EncodeSingleToken ==
    /\ pc = "idle"
    /\ \E input \in SingleInputs :
        Finish("encode_single_token", [input |-> input],
               OpenAI_encode_single_token(enc, input))

DecodeBytes ==
    /\ pc = "idle"
    /\ \E tokens \in SeqsOf(DecodeRanks, MaxTokens) :
        Finish("decode_bytes", [tokens |-> tokens], OpenAI_decode_bytes(enc, tokens))

Decode ==
    /\ pc = "idle"
    /\ \E tokens \in SeqsOf(DecodeRanks, MaxTokens), errors \in DecodeErrorHandler :
        Finish("decode", [tokens |-> tokens, errors |-> errors],
               OpenAI_decode(enc, tokens, errors))

DecodeWithOffsets ==
    /\ pc = "idle"
    /\ \E tokens \in SeqsOf(DecodeRanks, MaxTokens), overflow_checks \in BOOLEAN :
        Finish("decode_with_offsets",
               [tokens |-> tokens, overflow_checks |-> overflow_checks],
               OpenAI_decode_with_offsets(enc, tokens, overflow_checks))

TE_Encode ==
    /\ pc = "idle"
    /\ \E text \in SpecialTexts, allowed \in SpecialsArgs, disallowed \in SpecialsArgs :
        Finish("te_encode",
               [text |-> text, allowed |-> allowed, disallowed |-> disallowed],
               TokenEncoding_encode(enc, text, allowed, disallowed))

TE_EncodeBatch ==
    /\ pc = "idle"
    /\ \E text \in SeqsOf(BatchTexts, MaxBatch),
       allowed \in SpecialsArgs, disallowed \in SpecialsArgs :
        Finish("te_encode_batch",
               [batch |-> text, allowed |-> allowed, disallowed |-> disallowed],
               TokenEncoding_encode_batch(enc, text, allowed, disallowed))

\* TokenEncoding::encode_ordinary: its body is the call self.encode_ordinary(text)
TE_EncodeOrdinary ==
    /\ pc = "idle"
    /\ \E text \in BatchTexts :
        /\ pc' = "running"
        /\ op' = "te_encode_ordinary"
        /\ arg' = [text |-> text]
        /\ depth' = 1
        /\ UNCHANGED <<aux, enc, res>>

\* TokenEncoding::encode_ordinary_batch: every element goes to
\* self.encode_ordinary; an empty batch collects to an empty vector
TE_EncodeOrdinaryBatch ==
    /\ pc = "idle"
    /\ \E text \in SeqsOf(BatchTexts, MaxBatch) :
        /\ op' = "te_encode_ordinary_batch"
        /\ arg' = [batch |-> text]
        /\ IF text = <<>>
           THEN /\ pc' = "done"
                /\ res' = [kind |-> "ok", err |-> "", batch |-> <<>>]
                /\ depth' = 0
           ELSE /\ pc' = "running"
                /\ res' = res
                /\ depth' = 1
        /\ UNCHANGED <<aux, enc>>

\* the recursive call pushes one more frame
TE_Recurse ==
    /\ pc = "running"
    /\ depth < MaxStack
    /\ depth' = depth + 1
    /\ UNCHANGED <<aux, enc, pc, op, arg, res>>

\* no frame is left: the process aborts with a stack overflow
TE_StackOverflow ==
    /\ pc = "running"
    /\ depth = MaxStack
    /\ pc' = "done"
    /\ res' = [kind |-> "abort", err |-> "stack overflow"]
    /\ UNCHANGED <<aux, enc, op, arg, depth>>

\* a build that turns the tail call into a jump: the call spins in place and
\* never returns
TE_LoopForever ==
    /\ pc = "running"
    /\ depth = 1
    /\ pc' = "done"
    /\ res' = [kind |-> "hang", err |-> ""]
    /\ UNCHANGED <<aux, enc, op, arg, depth>>

\* the constructors: the value they build is the call's result; the shared
\* Encoding the other calls use stays as it is
NewArg(pattern_str, merge_ranks, special_tokens, explicit_n_vocab) ==
    [pattern_str |-> pattern_str, merge_ranks |-> merge_ranks,
     special_tokens |-> special_tokens, explicit_n_vocab |-> explicit_n_vocab]

New ==
    /\ pc = "idle"
    /\ \E p \in ConstructPatterns, m \in ConstructRanks,
          s \in ConstructSpecials, n \in ExplicitVocabs :
        Finish("new", NewArg(p, m, s, n), OpenAI_new("model", p, m, s, n))

\* the client calls encode(text, Collection(&[]), Collection(&[])) on the
\* Encoding that OpenAI::new has just returned
EncodeOnNew ==
    /\ pc = "done" /\ op = "new" /\ res.kind = "ok"
    /\ \E text \in SpecialTexts, past_end_panics \in BOOLEAN :
        Finish("encode_on_new",
               [new |-> arg, text |-> text, past_end_panics |-> past_end_panics],
               OpenAI_encode_built(res.enc, text, Collection({}), Collection({}),
                                   past_end_panics))

CounterNew ==
    /\ pc = "idle"
    /\ \E p \in ConstructPatterns, m \in ConstructRanks,
          s \in ConstructSpecials, n \in ExplicitVocabs :
        Finish("counter_new", NewArg(p, m, s, n),
               CounterOpenAI_new("model", p, m, s, n))

TE_New ==
    /\ pc = "idle"
    /\ \E p \in ConstructPatterns, m \in ConstructRanks,
          s \in ConstructSpecials, n \in ExplicitVocabs :
        Finish("te_new", NewArg(p, m, s, n),
               TokenEncoding_new("model", p, m, s, n))

GetInput ==
    /\ pc = "idle"
    /\ \E model \in Models, loaded \in LoadOutcomes :
        Finish("get_input", [model |-> model, loaded |-> loaded],
               Models_get_input(model, loaded))

EncodingNameForModel ==
    /\ pc = "idle"
    /\ \E model_name \in ModelNames :
        Finish("encoding_name_for_model", [model_name |-> model_name],
               encoding_name_for_model(model_name))

\* the operations declared with `self`, not `&self`: the call takes the
\* Encoding by value (OpenAI is neither Clone nor Copy)
ByValue == {"decode_single_tokens_bytes", "decode_tokens_bytes", "decode_with_offsets"}

\* what the client is left with once its Encoding was moved into a call
Moved == [name |-> "moved"]

DecodeSingleTokensBytes ==
    /\ pc = "idle"
    /\ \E token \in DecodeRanks :
        Finish("decode_single_tokens_bytes", [token |-> token],
               decode_single_token_bytes(enc.bpe_base, token))

DecodeTokensBytes ==
    /\ pc = "idle"
    /\ \E tokens \in SeqsOf(DecodeRanks, MaxTokens) :
        Finish("decode_tokens_bytes", [tokens |-> tokens],
               OpenAI_decode_tokens_bytes(enc, tokens))

\* the end of a call that took the Encoding by value: the Encoding is dropped
\* with the call, whatever it returned, and the client has none to call
Drop ==
    /\ pc = "done"
    /\ op \in ByValue
    /\ pc' = "moved"
    /\ enc' = Moved
    /\ op' = "none"
    /\ arg' = NoArg
    /\ res' = NoRes
    /\ depth' = 0
    /\ UNCHANGED aux

\* the client takes the result and is free to call again
Return ==
    /\ pc = "done"
    /\ op \notin ByValue
    /\ res.kind \notin {"abort", "hang"}
    /\ pc' = "idle"
    /\ op' = "none"
    /\ arg' = NoArg
    /\ res' = NoRes
    /\ depth' = 0
    /\ UNCHANGED <<aux, enc>>

Next ==
    \/ New
    \/ EncodeOnNew
    \/ CounterNew
    \/ TE_New
    \/ GetInput
    \/ EncodingNameForModel
    \/ EncodeOrdinary
    \/ Encode
    \/ EncodeOrdinaryBatch
    \/ EncodeBatch
    \/ EncodeWithUnstable
    \/ EncodeSingleToken
    \/ DecodeBytes
    \/ Decode
    \/ DecodeWithOffsets
    \/ DecodeSingleTokensBytes
    \/ DecodeTokensBytes
    \/ Drop
    \/ TE_Encode
    \/ TE_EncodeBatch
    \/ TE_EncodeOrdinary
    \/ TE_EncodeOrdinaryBatch
    \/ TE_Recurse
    \/ TE_StackOverflow
    \/ TE_LoopForever
    \/ Return

Spec == Init /\ [][Next]_vars

(***************************************************************************)
(* Concurrent callers of one engine.  A call spawns a thread, the thread   *)
(* takes its regexes from the pools, runs the native function to its end   *)
(* and is joined.                                                          *)
(***************************************************************************)
LiveIds == {threads[c].id : c \in {d \in Callers : threads[d].pc # "idle"}}

\* thread::spawn: the new thread has an id no live thread has
T_Spawn(c) ==
    /\ threads[c].pc = "idle"
    /\ \E call \in ThreadCalls, id \in ThreadIds \ LiveIds :
        threads' = [threads EXCEPT ![c] =
                      [IdleThread EXCEPT !.pc = "spawned", !.call = call, !.id = id]]
    /\ UNCHANGED <<enc, main, cache, kn>>

\* get_tl_special_regex and get_tl_regex at the head of the native encoders
T_GetRegex(c) ==
    /\ threads[c].pc = "spawned"
    /\ threads[c].call.op # "decode_bytes"
    /\ threads' = [threads EXCEPT
                     ![c].pc = "running",
                     ![c].regex = get_tl_regex(enc.bpe_base, threads[c].id),
                     ![c].special_regex =
                         get_tl_special_regex(enc.bpe_base, threads[c].id)]
    /\ UNCHANGED <<enc, main, cache, kn>>

\* decode_native takes no regex
T_Decode(c) ==
    /\ threads[c].pc = "spawned"
    /\ threads[c].call.op = "decode_bytes"
    /\ threads' = [threads EXCEPT
                     ![c].pc = "done",
                     ![c].res = ThreadResult(enc.bpe_base, threads[c].call)]
    /\ UNCHANGED <<enc, main, cache, kn>>

\* the native encoder over the regexes taken, then join
T_Run(c) ==
    /\ threads[c].pc = "running"
    /\ threads' = [threads EXCEPT
                     ![c].pc = "done",
                     ![c].res = ThreadResult(
                         WorkerBpe(enc.bpe_base, threads[c].regex,
                                   threads[c].special_regex),
                         threads[c].call)]
    /\ UNCHANGED <<enc, main, cache, kn>>

\* the caller takes the result; a call that never returns keeps its caller
T_Return(c) ==
    /\ threads[c].pc = "done"
    /\ threads[c].res.kind # "hang"
    /\ threads' = [threads EXCEPT ![c] = IdleThread]
    /\ UNCHANGED <<enc, main, cache, kn>>

NextThreads ==
    \E c \in Callers :
        \/ T_Spawn(c)
        \/ T_GetRegex(c)
        \/ T_Decode(c)
        \/ T_Run(c)
        \/ T_Return(c)

SpecThreads == Init /\ [][NextThreads]_vars

(***************************************************************************)
(* read_cached_file, step by step: the lookup in the cache, the fetch, the *)
(* check of the hash, the cache directory, the write through a temporary   *)
(* file.                                                                   *)
(***************************************************************************)
InitCache ==
    /\ enc \in {OpenAI_new("model", p, MergeRanks, SpecialTokens, NoVocab).enc :
                  p \in Patterns}
    /\ pc = "idle"
    /\ op = "none"
    /\ arg = NoArg
    /\ res = NoRes
    /\ depth = 0
    /\ threads = [c \in Callers |-> IdleThread]
    /\ fs \in InitialFs
    /\ rc = IdleCache
    /\ kn = IdleKernel

RC_Done(r) == rc' = [rc EXCEPT !.pc = "done", !.res = r]

RC_Started(blobpath, expected_hash, cache_dir, look) ==
    /\ fs' = look.fs
    /\ rc' = [pc |-> IF look.next = "return" THEN "done" ELSE "fetch",
              blobpath |-> blobpath, expected_hash |-> expected_hash,
              cache_dir |-> cache_dir,
              cached |-> cache_dir # <<>>
                         /\ exists(fs, CachePath(cache_dir, blobpath)),
              found |-> IF cache_dir # <<>>
                           /\ IsFile(fs, CachePath(cache_dir, blobpath))
                        THEN fs.files[CachePath(cache_dir, blobpath)] ELSE <<>>,
              contents |-> <<>>, res |-> look.res]

RC_Call ==
    /\ rc.pc = "idle"
    /\ \E blobpath \in BlobPaths, expected_hash \in ExpectedHashes,
          cache_dir \in CacheDirs :
        RC_Started(blobpath, expected_hash, cache_dir,
                   CacheLookup(fs, blobpath, expected_hash, cache_dir))
    /\ UNCHANGED <<enc, main, threads, kn>>

\* let contents = read_file(blobpath)?
RC_Fetch ==
    /\ rc.pc = "fetch"
    /\ \E remote \in Remote :
        LET rd == read_file(fs, rc.blobpath, remote)
        IN IF rd.kind # "ok" THEN RC_Done(rd)
           ELSE rc' = [rc EXCEPT !.pc = "verify", !.contents = rd.content]
    /\ UNCHANGED <<enc, main, threads, fs, kn>>

RC_Verify ==
    /\ rc.pc = "verify"
    /\ IF rc.expected_hash # NoHash /\ ~check_hash(rc.contents, rc.expected_hash)
       THEN RC_Done([kind |-> "err", err |-> "ValueError"])
       ELSE rc' = [rc EXCEPT !.pc = "mkdir"]
    /\ UNCHANGED <<enc, main, threads, fs, kn>>

RC_CreateDir ==
    /\ rc.pc = "mkdir"
    /\ LET mk == create_dir_all(fs, rc.cache_dir)
       IN IF mk.kind # "ok" THEN RC_Done(mk) /\ fs' = fs
          ELSE rc' = [rc EXCEPT !.pc = "write"] /\ fs' = mk.fs
    /\ UNCHANGED <<enc, main, threads, kn>>

RC_Write ==
    /\ rc.pc = "write"
    /\ \E uuid \in Uuids :
        LET w == WriteCache(fs, CachePath(rc.cache_dir, rc.blobpath), uuid,
                            rc.contents)
        IN RC_Done(w.res) /\ fs' = w.fs
    /\ UNCHANGED <<enc, main, threads, kn>>

RC_Return ==
    /\ rc.pc = "done"
    /\ rc' = IdleCache
    /\ UNCHANGED <<enc, main, threads, fs, kn>>

NextCache ==
    \/ RC_Call
    \/ RC_Fetch
    \/ RC_Verify
    \/ RC_CreateDir
    \/ RC_Write
    \/ RC_Return

SpecCache == InitCache /\ [][NextCache]_vars

(***************************************************************************)
(* The pair-merge kernel, one iteration of its while loop at a time.       *)
(***************************************************************************)
\* the call, up to the head of the while loop; assert!(piece.len() > 1)
K_Call ==
    /\ kn.pc = "idle"
    /\ \E tk \in BOOLEAN, fn \in {"split", "encode"},
          ranks \in KernelTables, piece \in KernelPieces :
        kn' = IF Len(piece) > 1
              THEN [IdleKernel EXCEPT !.pc = "loop", !.tk = tk, !.fn = fn,
                                      !.ranks = ranks, !.piece = piece,
                                      !.parts = InitialParts(ranks, piece)]
              ELSE [IdleKernel EXCEPT !.pc = "done", !.tk = tk, !.fn = fn,
                                      !.ranks = ranks, !.piece = piece,
                                      !.res = <<PANIC>>]
    /\ UNCHANGED <<enc, main, threads, cache>>

\* one iteration: min_rank.0 != Rank::MAX
K_Merge ==
    /\ kn.pc = "loop"
    /\ min_rank(kn.parts)[1] # RankMAX
    /\ kn' = [kn EXCEPT !.before = kn.parts,
                        !.i = min_rank(kn.parts)[2],
                        !.steps = 1,
                        !.parts = MergeStep(kn.ranks, kn.piece, kn.parts,
                                            min_rank(kn.parts)[2], kn.tk)]
    /\ UNCHANGED <<enc, main, threads, cache>>

\* the loop is over: windows(2) over the parts, as spans or as ranks
K_Exit ==
    /\ kn.pc = "loop"
    /\ min_rank(kn.parts)[1] = RankMAX
    /\ kn' = [kn EXCEPT !.pc = "done",
                        !.res = IF kn.fn = "split"
                                THEN Windows(kn.piece, kn.parts, 1)
                                ELSE IndexRanks(kn.ranks,
                                                Windows(kn.piece, kn.parts, 1))]
    /\ UNCHANGED <<enc, main, threads, cache>>

K_Return ==
    /\ kn.pc = "done"
    /\ kn' = IdleKernel
    /\ UNCHANGED <<enc, main, threads, cache>>

NextKernel ==
    \/ K_Call
    \/ K_Merge
    \/ K_Exit
    \/ K_Return

SpecKernel == Init /\ [][NextKernel]_vars

\* the while loop is sequential code: an iteration that can run does run,
\* and so does the exit of the loop
\* (the kernel reads no Encoding: one is enough)
InitKernel == Init /\ enc.pattern = PatDotPlus

SpecKernelFair ==
    InitKernel /\ [][NextKernel]_vars /\ WF_vars(K_Merge) /\ WF_vars(K_Exit)

(***************************************************************************)
(* Properties.                                                             *)
(***************************************************************************)
\* the text has the literal somewhere
Occurs(text, lit) == \E i \in 0..Len(text) : LitAt(text, lit, i)

\* every token is a rank of the vocabulary
Known(tokens) ==
    \A k \in DOMAIN tokens :
        tokens[k] \in DOMAIN enc.bpe_base.decoder
                      \cup DOMAIN enc.bpe_base.special_tokens_decoder

\* the bytes the tokens stand for
BytesOf(tokens) == Concat([k \in DOMAIN tokens |-> TokenBytes(enc.bpe_base, tokens[k])])

\* the sets a call's allowed and disallowed arguments stand for
AllowedOf(a) == IF a.allowed.all THEN special_tokens_set(enc) ELSE a.allowed.coll
DisallowedOf(a) ==
    IF a.disallowed.all THEN special_tokens_set(enc) \ AllowedOf(a)
    ELSE a.disallowed.coll

\* C1: round-trip (ordinary): decode(encode_ordinary(s), Strict) succeeds and
\* returns exactly s, for every text s over an encoder with every single byte
C1_RoundTripOrdinary ==
    (pc = "done" /\ op = "encode_ordinary") =>
        /\ res.kind = "ok"
        /\ OpenAI_decode(enc, res.tokens, Strict)
             = [kind |-> "ok", err |-> "", text |-> arg.text]

\* C2: round-trip (with specials): when no literal special outside A appears
\* in s, encode(s, allowed = A, disallowed = All) succeeds and decoding its
\* result under Strict returns exactly s
C2_RoundTripSpecials ==
    (/\ pc = "done" /\ op = "encode"
     /\ ~arg.allowed.all /\ arg.disallowed.all
     /\ \A t \in special_tokens_set(enc) \ arg.allowed.coll : ~Occurs(arg.text, t)) =>
        /\ res.kind = "ok"
        /\ OpenAI_decode(enc, res.tokens, Strict)
             = [kind |-> "ok", err |-> "", text |-> arg.text]

\* C3: disallowed-special pre-flight: with a non-empty disallowed set, encode
\* and encode_with_unstable return ValueError naming the token exactly when
\* the text has a literal occurrence of a disallowed special; no other text is
\* rejected, and a rejection produces no tokens
C3_PreFlightExact ==
    (/\ pc = "done" /\ op \in {"encode", "encode_with_unstable"}
     /\ DisallowedOf(arg) # {}) =>
        /\ (res.kind = "err") <=> (\E t \in DisallowedOf(arg) : Occurs(arg.text, t))
        /\ res.kind = "err" =>
              /\ res.err = "ValueError"
              /\ res.name \in DisallowedOf(arg)
              /\ res.tokens = <<>>

\* C4: normalization of the special sets: allowed = All stands for the full
\* special set and disallowed = All for the full set minus the allowed set, so
\* a call answers as the call with those explicit collections does, and with
\* both All no call fails the pre-flight
C4_Normalization ==
    pc = "done" =>
        /\ op = "encode" =>
              /\ res = OpenAI_encode(enc, arg.text, Collection(AllowedOf(arg)),
                                     Collection(DisallowedOf(arg)))
              /\ (arg.allowed.all /\ arg.disallowed.all) => res.kind # "err"
        /\ op = "encode_with_unstable" =>
              /\ res = OpenAI_encode_with_unstable(enc, arg.text,
                                                   Collection(AllowedOf(arg)),
                                                   Collection(DisallowedOf(arg)))
              /\ (arg.allowed.all /\ arg.disallowed.all) => res.kind # "err"
        /\ op = "te_encode" =>
              /\ res = TokenEncoding_encode(enc, arg.text, Collection(AllowedOf(arg)),
                                            Collection(DisallowedOf(arg)))
              /\ (arg.allowed.all /\ arg.disallowed.all) => res.kind # "err"

C4_Witness ==
    /\ pc = "done" /\ op = "encode"
    /\ arg.allowed.all /\ arg.disallowed.all
    /\ Occurs(arg.text, SpecialB)
    /\ res.kind = "ok"
    /\ \E k \in DOMAIN res.tokens : res.tokens[k] = SpecialTokens[SpecialB]

\* what a batch call owes its caller, given the answers of the single calls:
\* their token lists in the order of the input, or the failure of one of them
BatchOf(each) ==
    IF \A i \in DOMAIN each : each[i].kind = "ok"
    THEN /\ res.kind = "ok"
         /\ Len(res.batch) = Len(arg.batch)
         /\ \A i \in DOMAIN each : res.batch[i] = each[i].tokens
    ELSE \E i \in DOMAIN each :
            /\ each[i].kind # "ok"
            /\ res.kind = each[i].kind
            /\ res.err = each[i].err

\* C5: batch equivalence and order: encode_batch(xs, ..)[i] = encode(xs[i], ..)
\* and encode_ordinary_batch(xs)[i] = encode_ordinary(xs[i]); the output has
\* the length and order of xs, and a failing element fails the batch
C5_BatchEquivalence ==
    pc = "done" =>
        /\ op = "encode_ordinary_batch" =>
              BatchOf([i \in DOMAIN arg.batch |->
                         OpenAI_encode_ordinary(enc, arg.batch[i])])
        /\ op = "encode_batch" =>
              BatchOf([i \in DOMAIN arg.batch |->
                         OpenAI_encode(enc, arg.batch[i], arg.allowed, arg.disallowed)])
        /\ op = "te_encode_batch" =>
              BatchOf([i \in DOMAIN arg.batch |->
                         TokenEncoding_encode(enc, arg.batch[i], arg.allowed,
                                              arg.disallowed)])
        /\ op = "te_encode_ordinary_batch" =>
              /\ res.kind = "ok"
              /\ Len(res.batch) = Len(arg.batch)

\* C6: unstable superset: encode_with_unstable(s) returns (tokens, completions)
\* and, for every completion c, the bytes of tokens followed by the bytes of c
\* have the bytes of s as a prefix
C6_UnstableSuperset ==
    (pc = "done" /\ op = "encode_with_unstable" /\ res.kind # "err") =>
        /\ res.kind = "ok"
        /\ \A c \in res.completions :
              /\ Known(c)
              /\ StartsWith(BytesOf(res.tokens) \o BytesOf(c), arg.text)

\* C7: decode_bytes(tokens) returns the bytes of the tokens in order, and a
\* token in neither decoder surfaces KeyError to the caller
C7_DecodeBytesKeyError ==
    (pc = "done" /\ op = "decode_bytes") =>
        IF Known(arg.tokens)
        THEN res = [kind |-> "ok", err |-> "", bytes |-> BytesOf(arg.tokens)]
        ELSE res.kind = "err" /\ res.err = "KeyError"

\* C8: decode(tokens, Strict) returns ByteDecodeError when the token bytes are
\* not valid UTF-8, and on valid UTF-8 every policy returns the text that
\* equals those bytes
C8_DecodePolicies ==
    (pc = "done" /\ op = "decode" /\ Known(arg.tokens)) =>
        LET bytes == BytesOf(arg.tokens)
        IN IF from_utf8_ok(bytes)
           THEN res = [kind |-> "ok", err |-> "", text |-> bytes]
           ELSE arg.errors = Strict =>
                   res = [kind |-> "err", err |-> "ByteDecodeError", text |-> <<>>]

C8_Witness ==
    /\ pc = "done" /\ op = "decode"
    /\ arg.tokens = <<0, 7>> /\ arg.errors = Strict
    /\ res.kind = "err" /\ res.err = "ByteDecodeError"

\* C9: offset decode: for tokens whose bytes are valid UTF-8, decode_with_offsets
\* returns one offset per token, non-decreasing, the first 0, and offsets[i] is
\* the number of non-continuation bytes before token i, minus 1 when token i
\* starts with a continuation byte
C9_OffsetDecode ==
    (/\ pc = "done" /\ op = "decode_with_offsets"
     /\ Known(arg.tokens) /\ from_utf8_ok(BytesOf(arg.tokens))) =>
        LET B(i) == TokenBytes(enc.bpe_base, arg.tokens[i])
            cont(b) == 128 <= b /\ b < 192
            before(i) == Cardinality({p \in (1..(i - 1)) \X (1..5) :
                                        /\ p[2] <= Len(B(p[1]))
                                        /\ ~cont(B(p[1])[p[2]])})
        IN /\ res.kind = "ok"
           /\ res.text = BytesOf(arg.tokens)
           /\ Len(res.offsets) = Len(arg.tokens)
           /\ \A i \in 1..(Len(res.offsets) - 1) : res.offsets[i] <= res.offsets[i + 1]
           /\ arg.tokens # <<>> => res.offsets[1] = 0
           /\ \A i \in DOMAIN arg.tokens :
                 res.offsets[i] = before(i) - (IF cont(B(i)[1]) THEN 1 ELSE 0)

C9_Witness ==
    /\ pc = "done" /\ op = "decode_with_offsets"
    /\ arg.tokens = <<12, 6, 7>>
    /\ res.kind = "ok"
    /\ res.offsets = <<0, 1, 1>>

\* C10: encode_single_token(input) returns encoder[input] for an encoder key,
\* else the special rank of a valid UTF-8 special-token string, else KeyError;
\* every single byte is defined and answers encoder[[b]]
C10_EncodeSingleToken ==
    (pc = "done" /\ op = "encode_single_token") =>
        /\ IF arg.input \in DOMAIN enc.merge_able_ranks
           THEN res = [kind |-> "ok", err |-> "",
                       rank |-> enc.merge_able_ranks[arg.input]]
           ELSE IF from_utf8_ok(arg.input) /\ arg.input \in DOMAIN enc.special_token
           THEN res = [kind |-> "ok", err |-> "", rank |-> enc.special_token[arg.input]]
           ELSE res.kind = "err" /\ res.err = "KeyError"
        /\ Len(arg.input) = 1 =>
              res.kind = "ok" /\ res.rank = enc.merge_able_ranks[arg.input]

C10_Witness ==
    /\ pc = "done" /\ op = "encode_single_token"
    /\ arg.input = SpecialA
    /\ res.kind = "ok" /\ res.rank = 13

\* the call is one of the constructors
IsNew == pc = "done" /\ op \in {"new", "counter_new", "te_new"}

\* C11: construction from an empty merge_ranks table fails with ValueError in
\* every constructor (OpenAI::new and TokenEncoding::new), and builds no
\* Encoding
C11_EmptyMergeRanks ==
    (IsNew /\ DOMAIN arg.merge_ranks = {}) =>
        (res.kind = "err" /\ res.err = "ValueError")

\* the engine inside the Encoding a constructor built
BuiltEngine == IF op = "te_new" THEN res.enc.core_bpe ELSE res.enc.bpe_base

\* two distinct byte sequences of the table share a rank
SharesRank(map) == \E k1, k2 \in DOMAIN map : k1 # k2 /\ map[k1] = map[k2]

\* the construction gets as far as deriving the decoder: the pattern
\* compiles and no vocabulary size is declared
ReachesDecoder ==
    /\ arg.explicit_n_vocab = NoVocab
    /\ IF op = "te_new" THEN FancyRegexCompiles(arg.pattern_str)
       ELSE RegexCompiles(arg.pattern_str)

\* C12: construction from merge_ranks in which two distinct byte sequences
\* share a rank returns an InvalidEncoder error to the caller, and every
\* Encoding that is built has |encoder| = |decoder|
C12_DuplicateRank ==
    IsNew =>
        /\ (SharesRank(arg.merge_ranks) /\ ReachesDecoder) =>
               (res.kind = "err" /\ res.err = "InvalidEncoder")
        /\ res.kind = "ok" =>
               Cardinality(DOMAIN BuiltEngine.encoder)
                   = Cardinality(DOMAIN BuiltEngine.decoder)

\* the tables of the call break one of the two equalities of a declared
\* vocabulary size
ViolatesVocab(merge_ranks, special_tokens, n) ==
    \/ Cardinality(DOMAIN merge_ranks) + Cardinality(DOMAIN special_tokens) # n
    \/ Max(Ranks(merge_ranks) \cup Ranks(special_tokens) \cup {0}) # n - 1

\* C13: with an explicit vocabulary size N, every Encoding that is built has
\* |encoder| + |special_encoder| = N and max_token_value = N - 1, so
\* n_vocab() = N, and construction with a table that violates either
\* equality returns ValueError to the caller
C13_ExplicitVocab ==
    (IsNew /\ arg.explicit_n_vocab # NoVocab) =>
        /\ res.kind = "ok" =>
              /\ Cardinality(DOMAIN BuiltEngine.encoder)
                   + Cardinality(DOMAIN BuiltEngine.special_tokens_encoder)
                     = arg.explicit_n_vocab
              /\ res.enc.max_token_value = arg.explicit_n_vocab - 1
              /\ n_vocab(res.enc) = arg.explicit_n_vocab
        /\ ViolatesVocab(arg.merge_ranks, arg.special_tokens,
                         arg.explicit_n_vocab) =>
              (res.kind = "err" /\ res.err = "ValueError")

ListedSpecialTokens(model) ==
    IF model = "p50k_edit"
    THEN ("<|endoftext|>" :> 50256) @@ ("<|fim_prefix|>" :> 50281)
         @@ ("<|fim_middle|>" :> 50282) @@ ("<|fim_suffix|>" :> 50283)
    ELSE ("<|endoftext|>" :> 100257) @@ ("<|fim_prefix|>" :> 100258)
         @@ ("<|fim_middle|>" :> 100259) @@ ("<|fim_suffix|>" :> 100260)
         @@ ("<|endofprompt|>" :> 100276)

\* C15: the special-token table of p50k_edit has the four distinct entries
\* endoftext->50256, fim_prefix->50281, fim_middle->50282, fim_suffix->50283,
\* that of cl100k_base the five distinct entries endoftext->100257,
\* fim_prefix->100258, fim_middle->100259, fim_suffix->100260,
\* endofprompt->100276, and every listed rank is the rank of exactly one
\* special string
C15_SpecialTables ==
    (/\ pc = "done" /\ op = "get_input" /\ res.kind = "ok"
     /\ arg.model \in {"p50k_edit", "cl100k_base"}) =>
        /\ res.input.special_tokens = ListedSpecialTokens(arg.model)
        /\ \A r \in Ranks(ListedSpecialTokens(arg.model)) :
              Cardinality({s \in DOMAIN res.input.special_tokens :
                             res.input.special_tokens[s] = r}) = 1

\* a call on a blob that was not cached is over, and the blob was fetched
FetchedUncached ==
    /\ rc.pc = "done" /\ ~rc.cached /\ rc.cache_dir # <<>>
    /\ rc.contents # <<>>

\* C16: read_cached_file on a blob not yet cached fetches it and checks it
\* against the expected SHA-256; on a mismatch it fails with ValueError and
\* the cache path holds no file; otherwise it returns the content, and the
\* cache path (cache directory / lowercase-hex SHA-1 of the source) holds
\* exactly the fetched content
C16_CacheFill ==
    FetchedUncached =>
        IF rc.expected_hash # NoHash /\ Sha256Hex(rc.contents) # rc.expected_hash
        THEN /\ rc.res.kind = "err" /\ rc.res.err = "ValueError"
             /\ ~IsFile(fs, CachePath(rc.cache_dir, rc.blobpath))
        ELSE /\ rc.res.kind = "ok" /\ rc.res.content = rc.contents
             /\ IsFile(fs, CachePath(rc.cache_dir, rc.blobpath))
             /\ fs.files[CachePath(rc.cache_dir, rc.blobpath)] = rc.contents

\* the name is one of the seven prefixes followed by anything
HasListedPrefix(n) ==
    \E k \in 0..Len(n) : SubSeq(n, 1, k) \in Elems(MODEL_PREFIX_TO_CL100K_BASE)

\* the encodings whose exact table lists the name
ExactEncodings(n) ==
    {e \in Models :
        n \in CASE e = "cl100k_base" -> Elems(CL100K_BASE)
                [] e = "p50k_base" -> Elems(P50K_BASE)
                [] e = "r50k_base" -> Elems(R50K_BASE)
                [] e = "p50k_edit" -> Elems(P50K_EDIT)
                [] e = "gpt2" -> Elems(GPT2)}

\* C17: encoding_name_for_model returns cl100k_base for every name of the
\* exact cl100k table and every name that starts with one of the seven
\* prefixes, the encoding of its table for every other listed name, and
\* ModelNotFound for every name that is in no table and has no prefix
C17_EncodingNameForModel ==
    (pc = "done" /\ op = "encoding_name_for_model") =>
        IF "cl100k_base" \in ExactEncodings(arg.model_name)
           \/ HasListedPrefix(arg.model_name)
        THEN res.kind = "ok" /\ res.name = "cl100k_base"
        ELSE IF ExactEncodings(arg.model_name) # {}
        THEN res.kind = "ok" /\ ExactEncodings(arg.model_name) = {res.name}
        ELSE res.kind = "err" /\ res.err = "ModelNotFound"

\* a name of no table that starts with a prefix got cl100k_base
C17_Witness ==
    /\ pc = "done" /\ op = "encoding_name_for_model"
    /\ ExactEncodings(arg.model_name) = {}
    /\ HasListedPrefix(arg.model_name)
    /\ res.kind = "ok" /\ res.name = "cl100k_base"

(***************************************************************************)
(* The reference greedy BPE over spans, the yardstick of the kernel        *)
(* claims: the adjacent pair whose concatenation has the least rank, the   *)
(* leftmost on a tie, is merged, until no adjacent pair is a key.          *)
(***************************************************************************)
RefPairRank(ranks, spans, k) == RankOf(ranks, spans[k] \o spans[k + 1])

\* the index of the pair to merge, 0 when no adjacent pair is a key
RefMin(ranks, spans) ==
    LET idx == {k \in 1..(Len(spans) - 1) : RefPairRank(ranks, spans, k) < RankMAX}
    IN IF idx = {} THEN 0
       ELSE CHOOSE k \in idx :
              \A j \in idx : \/ RefPairRank(ranks, spans, k) < RefPairRank(ranks, spans, j)
                             \/ /\ RefPairRank(ranks, spans, k) = RefPairRank(ranks, spans, j)
                                /\ k <= j

RefMergeAt(spans, k) ==
    SubSeq(spans, 1, k - 1) \o <<spans[k] \o spans[k + 1]>>
    \o SubSeq(spans, k + 2, Len(spans))

RefMergeOnce(ranks, spans) ==
    IF RefMin(ranks, spans) = 0 THEN spans
    ELSE RefMergeAt(spans, RefMin(ranks, spans))

\* the spans of every state of the reference run, from spans on
RECURSIVE RefRun(_, _)
RefRun(ranks, spans) ==
    IF RefMin(ranks, spans) = 0 THEN {spans}
    ELSE {spans} \cup RefRun(ranks, RefMergeOnce(ranks, spans))

Bytes1(piece) == [k \in 1..Len(piece) |-> <<piece[k]>>]

\* the byte offset at which spans[k] starts; k = Len(spans) + 1 gives the end
RECURSIVE Offset(_, _)
Offset(spans, k) == IF k <= 1 THEN 0 ELSE Offset(spans, k - 1) + Len(spans[k - 1])

Cuts(spans) == {Offset(spans, k) : k \in 1..(Len(spans) + 1)}

\* the ways to write the piece as a concatenation of keys
RECURSIVE Decompositions(_, _)
Decompositions(keys, piece) ==
    IF piece = <<>> THEN {<<>>}
    ELSE UNION {{<<key>> \o d :
                   d \in Decompositions(keys, SubSeq(piece, Len(key) + 1, Len(piece)))} :
                key \in {x \in keys : StartsWith(piece, x)}}

\* no adjacent pair of spans that arises during the merging is a key, other
\* than the pairs inside one of the keys of the decomposition d
NoOtherPair(ranks, piece, d) ==
    \A spans \in RefRun(ranks, Bytes1(piece)) :
        \A k \in 1..(Len(spans) - 1) :
            RefPairRank(ranks, spans, k) < RankMAX =>
                ~\E c \in Cuts(d) : Offset(spans, k) < c /\ c < Offset(spans, k + 2)

\* C18: for a piece that is the concatenation k1 ... km of keys of the rank
\* table, where no other adjacent pair of spans arising during merging is a
\* key, the pair-merge split returns exactly [k1, ..., km], in input order
C18_SplitIntoKeys ==
    (kn.pc = "done" /\ kn.fn = "split" /\ Len(kn.piece) > 1) =>
        \A d \in Decompositions(DOMAIN kn.ranks, kn.piece) :
            NoOtherPair(kn.ranks, kn.piece, d) => kn.res = d

\* the final spans of the reference run
RECURSIVE RefBPE(_, _)
RefBPE(ranks, spans) ==
    IF RefMin(ranks, spans) = 0 THEN spans
    ELSE RefBPE(ranks, RefMergeOnce(ranks, spans))

\* the rank the claim puts at index j after a merge: that of the piece from
\* the start of part j to the start of part j + 3, parts being the vector
\* before the removal; MAX when there is no part j + 3 or the slice is no key
ClaimedRank(ranks, piece, parts, j) ==
    IF j + 3 < Len(parts)
    THEN RankOf(ranks, SubSeq(piece, parts[j + 1][1] + 1, parts[j + 4][1]))
    ELSE RankMAX

\* a merge step of the kernel has just been taken
Merged == kn.pc \in {"loop", "done"} /\ kn.steps > 0

\* C19: the kernel is the reference greedy BPE: every step merges the
\* adjacent pair of spans of least rank, the leftmost on a tie; after the
\* merge at index i the rank stored at i is that of
\* P[parts[i].start .. parts[i+3].start] and the rank stored at i-1 is that
\* of P[parts[i-1].start .. parts[i+2].start], MAX when absent; and the loop
\* ends with the spans of the reference
C19_KernelIsGreedyBPE ==
    /\ Merged =>
        /\ kn.i + 1 = RefMin(kn.ranks, Windows(kn.piece, kn.before, 1))
        /\ Windows(kn.piece, kn.parts, 1)
             = RefMergeOnce(kn.ranks, Windows(kn.piece, kn.before, 1))
        /\ kn.parts[kn.i + 1][2]
             = ClaimedRank(kn.ranks, kn.piece, kn.before, kn.i)
        /\ kn.i > 0 =>
             kn.parts[kn.i][2]
               = ClaimedRank(kn.ranks, kn.piece, kn.before, kn.i - 1)
    /\ (kn.pc = "done" /\ Len(kn.piece) > 1) =>
          Windows(kn.piece, kn.parts, 1) = RefBPE(kn.ranks, Bytes1(kn.piece))

\* the encoder has every single byte of the piece, and the piece has two
\* bytes or more
SingleBytesKnown ==
    /\ Len(kn.piece) >= 2
    /\ \A k \in 1..Len(kn.piece) : <<kn.piece[k]>> \in DOMAIN kn.ranks

\* C20: for a piece of two bytes or more and an encoder with every single
\* byte, after every merge step each current span is a key of the encoder:
\* the kernel only merges two spans whose concatenation is a key, and the
\* final rank lookup of byte_pair_encode never fails
C20_SpanKeyInvariant ==
    (kn.pc \in {"loop", "done"} /\ SingleBytesKnown) =>
        /\ \A k \in 1..(Len(kn.parts) - 1) :
              SubSeq(kn.piece, kn.parts[k][1] + 1, kn.parts[k + 1][1])
                  \in DOMAIN kn.ranks
        /\ (kn.pc = "done" /\ kn.fn = "encode") => ~Panicked(kn.res)

\* the kernel is at work on a piece of two bytes or more
InKernel == kn.pc \in {"loop", "done"} /\ Len(kn.piece) >= 2

\* the start indices of the parts: strictly increasing, first 0, last n
StartsIncrease(parts, n) ==
    /\ Len(parts) >= 2
    /\ parts[1][1] = 0
    /\ parts[Len(parts)][1] = n
    /\ \A k \in 1..(Len(parts) - 1) : parts[k][1] < parts[k + 1][1]

\* the merges done so far, one entry of parts removed by each
MergesDone == (Len(kn.piece) + 1) - Len(kn.parts)

\* C21: the pair-merge kernel terminates for every piece of n >= 2 bytes:
\* parts starts with n + 1 entries, the last two of rank MAX; every
\* iteration removes exactly one entry; the start indices stay strictly
\* increasing from 0 to n; there are at most n - 1 merges; and the loop ends
\* (the kernel never stays in it for ever), with no entry of rank below MAX
C21_KernelTerminates ==
    /\ [](InKernel =>
            /\ StartsIncrease(kn.parts, Len(kn.piece))
            /\ MergesDone \in 0..(Len(kn.piece) - 1)
            /\ (kn.pc = "loop" /\ kn.steps = 0) =>
                  /\ Len(kn.parts) = Len(kn.piece) + 1
                  /\ kn.parts[Len(kn.parts)][2] = RankMAX
                  /\ kn.parts[Len(kn.parts) - 1][2] = RankMAX
            /\ kn.pc = "done" => min_rank(kn.parts)[1] = RankMAX)
    /\ [][(kn.pc = "loop" /\ kn'.pc = "loop") =>
            Len(kn'.parts) = Len(kn.parts) - 1]_vars
    /\ []<>(kn.pc # "loop")

\* a piece of three bytes merged twice, down to the two entries 0 and n
C21_Witness ==
    /\ InKernel /\ kn.pc = "done" /\ ~kn.tk
    /\ Len(kn.piece) = 3 /\ MergesDone = 2

\* the first occurrence, at or after `from`, of a literal of the allowed set:
\* <<start, end>>, <<-1, -1>> when there is none
FirstAllowed(text, allowed, from) ==
    LET hits == {i \in from..Len(text) : \E t \in allowed : LitAt(text, t, i)}
    IN IF hits = {} THEN <<-1, -1>>
       ELSE <<Min(hits),
              Min(hits) + Len(CHOOSE t \in allowed : LitAt(text, t, Min(hits)))>>

\* the ordinary encoding of a slice, by the engine of the call
OrdinaryOf(tk, slice) ==
    IF tk THEN tk_encode_ordinary_native(enc.bpe_base, slice)
    ELSE encode_ordinary_native(enc.bpe_base, slice)

\* the scan the claim describes: the ordinary encoding of the slice up to the
\* next allowed special, the rank of that special, and on from its end
RECURSIVE Interleaving(_, _, _, _)
Interleaving(tk, text, allowed, from) ==
    LET m == FirstAllowed(text, allowed, from)
    IN IF m[1] = -1 THEN OrdinaryOf(tk, SubSeq(text, from + 1, Len(text)))
       ELSE OrdinaryOf(tk, SubSeq(text, from + 1, m[1]))
            \o <<enc.special_token[SubSeq(text, m[1] + 1, m[2])]>>
            \o Interleaving(tk, text, allowed, m[2])

\* the occurrences of a rank in a token list
CountOf(tokens, rank) == Cardinality({k \in DOMAIN tokens : tokens[k] = rank})

\* the literal occurrences of a special in a text (no two of them overlap)
OccurrencesOf(text, lit) == Cardinality({i \in 0..Len(text) : LitAt(text, lit, i)})

\* C22: special-token scan progress: for every text and allowed set the main
\* scan of encode resumes at the end of each allowed special match, so it
\* terminates, every allowed special occurrence contributes its rank exactly
\* once, and the output is the in-order interleaving of the ordinary
\* encodings of the slices between the allowed specials with their ranks
C22_SpecialScanProgress ==
    (pc = "done" /\ op \in {"encode", "te_encode"} /\ res.kind # "err") =>
        /\ res.kind = "ok"
        /\ res.tokens = Interleaving(op = "te_encode", arg.text, AllowedOf(arg), 0)
        /\ \A t \in AllowedOf(arg) :
              CountOf(res.tokens, enc.special_token[t]) = OccurrencesOf(arg.text, t)

\* where the final non-special slice starts: the end of the last allowed
\* special of the scan, 0 when there is none
RECURSIVE FinalSliceStart(_, _, _)
FinalSliceStart(text, allowed, from) ==
    LET m == FirstAllowed(text, allowed, from)
    IN IF m[1] = -1 THEN from ELSE FinalSliceStart(text, allowed, m[2])

\* the last_piece_len the claim gives a scan whose final slice has the pieces
ClaimedLastPieceLen(pieces) ==
    IF pieces = <<>> THEN 0
    ELSE IF pieces[Len(pieces)] \in DOMAIN enc.bpe_base.encoder THEN 1
    ELSE Len(byte_pair_encode(pieces[Len(pieces)], enc.bpe_base.encoder))

\* the main scan of the call returned en = (tokens, last_piece_len)
LastPieceLenOf(text, allowed, en) ==
    /\ ~Panicked(en[1])
    /\ en[2] = ClaimedLastPieceLen(
                  find_iter(enc.bpe_base.regex_tls,
                            SubSeq(text, FinalSliceStart(text, allowed, 0) + 1,
                                   Len(text)), 0))
    /\ (text = <<>> \/ FinalSliceStart(text, allowed, 0) = Len(text)) => en[2] = 0
    /\ en[2] <= Len(en[1])
    /\ \A l \in 1..Len(en[1]) :
          increase_last_piece_token_len(enc.bpe_base, en[1], l) \in l..Len(en[1])

\* C23: the last_piece_len of the main scan is 0 when the text is empty or
\* ends with an allowed special, and otherwise the number of tokens of the
\* final regex piece of the final non-special slice (1 for a direct encoder
\* hit); it never exceeds the number of emitted tokens, also after the
\* whitespace extension
C23_LastPieceLen ==
    (pc = "done" /\ op \in {"encode", "encode_with_unstable"} /\ res.kind # "err") =>
        LastPieceLenOf(arg.text, AllowedOf(arg),
                       encode_native(enc.bpe_base, arg.text, AllowedOf(arg)))

\* the scan ends in the piece "   " of two tokens, and the extension of a
\* last_piece_len of 1 takes in the token before
C23_Witness ==
    /\ pc = "done" /\ op = "encode" /\ res.kind = "ok"
    /\ arg.text = <<BSP, BSP, BSP>>
    /\ Len(res.tokens) = 2
    /\ encode_native(enc.bpe_base, arg.text, AllowedOf(arg))[2] = 2
    /\ increase_last_piece_token_len(enc.bpe_base, res.tokens, 1) = 2

\* the unstable bytes of a scan en = (tokens, last_piece_len): the bytes of
\* the tokens of the last piece, after the whitespace extension
UnstableBytesOf(en) ==
    IF Panicked(en[1]) \/ en[2] = 0 THEN <<>>
    ELSE decode_native(enc.bpe_base,
            SubSeq(en[1],
                   Len(en[1]) - increase_last_piece_token_len(enc.bpe_base, en[1], en[2]) + 1,
                   Len(en[1])))

\* the encoding of one half: its rank when it is a key (a single byte is
\* one), its pair-merge encoding otherwise
HalfEncoding(half) ==
    IF half \in DOMAIN enc.bpe_base.encoder THEN <<enc.bpe_base.encoder[half]>>
    ELSE byte_pair_encode(half, enc.bpe_base.encoder)

\* the unstable bytes u end in the whitespace character last = (char, width),
\* which at least one byte precedes
EndsInWhitespace(u, last) ==
    /\ Len(u) > 1
    /\ last[1] # -1 /\ is_whitespace(last[1])
    /\ Len(u) - last[2] > 0

TrailingWhitespaceOf(u) ==
    (u # <<>> /\ EndsInWhitespace(u, decode_last_utf8(u))) =>
        /\ res.kind = "ok"
        /\ HalfEncoding(SubSeq(u, 1, Len(u) - decode_last_utf8(u)[2]))
             \o HalfEncoding(SubSeq(u, Len(u) - decode_last_utf8(u)[2] + 1, Len(u)))
           \in res.completions

\* C24: trailing-whitespace completion: whenever unstable_bytes has more than
\* one byte and its final UTF-8 codepoint is whitespace preceded by at least
\* one byte, encode_with_unstable completes normally and its completions
\* contain the concatenation of the encodings of the two halves split at the
\* final codepoint boundary, whatever the length of either half
C24_TrailingWhitespace ==
    (pc = "done" /\ op = "encode_with_unstable" /\ res.kind # "err") =>
        TrailingWhitespaceOf(
            UnstableBytesOf(encode_native(enc.bpe_base, arg.text, AllowedOf(arg))))

\* the bytes of the tokens tb = decode_tokens_bytes(tokens) are not valid
\* UTF-8: the call owes ByteDecodeError, and no offset may have wrapped
OffsetsOf(tb, overflow_checks) ==
    (tb.kind = "ok" /\ ~from_utf8_ok(Concat(tb.list))) =>
        /\ res.kind = "err" /\ res.err = "ByteDecodeError"
        /\ \A k \in DOMAIN OffsetLoop(tb.list, 0, <<>>, overflow_checks) :
              OffsetLoop(tb.list, 0, <<>>, overflow_checks)[k] \in 0..Len(Concat(tb.list))

\* C25: decode_with_offsets returns ByteDecodeError for every token sequence
\* whose concatenated bytes are not valid UTF-8, also when the first token
\* begins with a continuation byte (0x80..0xBF): the offset of such a token
\* is the current character count minus one, computed without unsigned
\* underflow
C25_OffsetsNoUnderflow ==
    (pc = "done" /\ op = "decode_with_offsets") =>
        OffsetsOf(OpenAI_decode_tokens_bytes(enc, arg.tokens), arg.overflow_checks)

\* the length of the valid UTF-8 character the bytes start with, 0 when they
\* start with an invalid byte
ValidCharLen(bytes) ==
    LET w == utf8_char_width(bytes[1])
    IN IF w >= 1 /\ w <= Len(bytes) /\ from_utf8_ok(SubSeq(bytes, 1, w)) THEN w ELSE 0

\* the text the claim describes: the valid characters unchanged and in order,
\* every invalid byte replaced at its position by \xHH (escape) or dropped
RECURSIVE PolicyText(_, _)
PolicyText(bytes, escape) ==
    IF bytes = <<>> THEN <<>>
    ELSE IF ValidCharLen(bytes) > 0
    THEN SubSeq(bytes, 1, ValidCharLen(bytes))
         \o PolicyText(SubSeq(bytes, ValidCharLen(bytes) + 1, Len(bytes)), escape)
    ELSE (IF escape
          THEN <<BBSL, BX, HexDigit(bytes[1] \div 16), HexDigit(bytes[1] % 16)>>
          ELSE <<>>)
         \o PolicyText(Tail(bytes), escape)

\* byte strings with the lead of a three-byte character, whole and cut short
PolicyInputs == SeqsOf({BA, BC3, BA9, BE2}, MaxTokens)

\* C26: under BackslashEscape decode returns the valid UTF-8 parts of the
\* token bytes unchanged and in order, with every invalid byte replaced at its
\* position by the escape \xHH (backslash, x, the two hex digits of the
\* byte); under Ignore it returns the same text with the invalid bytes dropped
C26_EscapeAndIgnore ==
    (pc = "done" /\ op = "decode" /\ Known(arg.tokens)
     /\ arg.errors \in {BackSlashReplace, Ignore}) =>
        /\ res = [kind |-> "ok", err |-> "",
                  text |-> PolicyText(BytesOf(arg.tokens),
                                      arg.errors = BackSlashReplace)]
        /\ \A v \in PolicyInputs :
              /\ from_utf8_backslash(v) = PolicyText(v, TRUE)
              /\ from_utf8_ignore(v) = PolicyText(v, FALSE)

\* "a" followed by the lone continuation byte A9: a\xA9
C26_Witness ==
    /\ pc = "done" /\ op = "decode"
    /\ arg.tokens = <<0, 7>> /\ arg.errors = BackSlashReplace
    /\ res.kind = "ok"
    /\ res.text = <<BA, BBSL, BX, 65, 57>>

\* C27: the Encoding is never changed or invalidated by calls: after any
\* sequence of facade operations on one Encoding, the calls that return
\* KeyError, ValueError or ByteDecodeError included, its encoder, decoder,
\* special maps and sorted tokens are what they were, and a later call
\* answers as it would on a freshly constructed Encoding
C27_NeverInvalidated == [][enc' = enc]_vars

\* the Encoding a construction with the arguments a returned
Fresh(a) ==
    OpenAI_new("model", a.pattern_str, a.merge_ranks, a.special_tokens,
               a.explicit_n_vocab).enc

\* the merge ranks have every single byte of the text
HasBytesOf(ranks, text) == \A k \in DOMAIN text : <<text[k]>> \in DOMAIN ranks

\* the call returned exactly what encode_ordinary returns on the Encoding e
SameAsOrdinary(e, text) ==
    /\ res.kind = "ok"
    /\ OpenAI_encode_ordinary(e, text).kind = "ok"
    /\ res.tokens = OpenAI_encode_ordinary(e, text).tokens

CacheHit == rc.pc # "idle" /\ rc.cached

\* C29: cache hit: when the cache file of a blob exists and is readable,
\* read_cached_file returns its content without fetching the source and
\* leaves the cache file in place, both when no expected hash is given and
\* when the content matches the expected hash; the file is removed and the
\* blob fetched again only when an expected hash is given and does not match
C29_CacheHit ==
    (/\ CacheHit
     /\ rc.expected_hash = NoHash \/ check_hash(rc.found, rc.expected_hash)) =>
        /\ rc.pc = "done"
        /\ rc.res.kind = "ok" /\ rc.res.content = rc.found
        /\ rc.contents = <<>>
        /\ IsFile(fs, CachePath(rc.cache_dir, rc.blobpath))
        /\ fs.files[CachePath(rc.cache_dir, rc.blobpath)] = rc.found

\* C30: TokenEncoding::encode_ordinary(text) terminates for every text and
\* returns the core BPE ordinary encoding of the text, and so
\* TokenEncoding::encode_ordinary_batch terminates and returns one such
\* result per element of its input (a call that does not return ends the
\* model's call with the kind "abort" or "hang")
C30_EncodeOrdinaryTerminates ==
    pc = "done" =>
        /\ op = "te_encode_ordinary" =>
              /\ res.kind = "ok"
              /\ res.tokens = CoreBPE_encode_ordinary(enc.bpe_base, arg.text)
        /\ op = "te_encode_ordinary_batch" =>
              /\ res.kind = "ok"
              /\ Len(res.batch) = Len(arg.batch)
              /\ \A i \in DOMAIN arg.batch :
                    res.batch[i] = CoreBPE_encode_ordinary(enc.bpe_base, arg.batch[i])

=============================================================================
